---- MODULE Spec2Model ----
(***************************************************************************)
(* Impact simulator: physics validation, zone-population aggregation, the  *)
(* city dataset loader (ensureLoaded and its callers) and city search.     *)
(*                                                                         *)
(* Conventions of the model                                                *)
(*   - an optional JavaScript value (x?: T) is a sequence of length <= 1:  *)
(*     <<>> is undefined, <<v>> is the value v;                            *)
(*   - latitudes and longitudes are integers in hundredths of a degree;    *)
(*   - distances and radii are integers in metres (km * 1000);             *)
(*   - a string subject to normalisation is a sequence of characters.      *)
(***************************************************************************)
EXTENDS Integers, Sequences, FiniteSets, TLC

VARIABLES
    aggIn,          \* arguments of one populationAffectedByZones call
    aggOut,         \* <<>> before the call, <<result>> after it
    params,         \* ImpactParameters handed to simulateImpactor
    simOut,         \* <<>> before the call, <<outcome>> after it
    searchIn,       \* arguments of one searchCities / rankAndFilterCities call
    searchOut,      \* <<>> before the call, <<returned list>> after it
    sources,        \* what each of the three candidate paths serves
    citiesLoaded,   \* module state of utils/geocoding
    citiesFlat,
    gridIndex,
    pc,             \* where each caller stands: idle, fetch, body, resume
    cand,           \* the candidate a loading caller is at
    call,           \* the exported function each caller called, and its arguments
    ret,            \* <<>> while the call is pending, <<returned value>> after
    nCalls,         \* calls made so far
    nLoads,         \* times ensureLoaded went past its citiesLoaded guard
    seisIn,         \* the two energies handed to seismicMagnitudeEstimate
    seisOut,        \* <<>> before the calls, the two magnitudes after them
    geoIn,          \* a loaded dataset and the target of one reverseGeocode call
    geoOut,         \* <<>> before the call, <<returned value>> after it
    uiState,        \* App: isSimulating and showResults
    mission,        \* App: the selected location and the result
    parameters,     \* App: the impact parameters of the sliders
    viewerRef,      \* CesiumGlobe: whether viewerRef.current holds a viewer
    globe,          \* CesiumGlobe: the phase of the simulation effect and its res
    searchBar       \* SearchBar: query, results, open, debounceRef and the timers

aggVars == <<aggIn, aggOut>>
physVars == <<params, simOut>>
searchVars == <<searchIn, searchOut>>
seisVars == <<seisIn, seisOut>>
geoVars == <<geoIn, geoOut>>
appVars == <<uiState, mission, parameters, viewerRef, globe>>
barVars == <<searchBar>>
loaderVars == <<sources, citiesLoaded, citiesFlat, gridIndex, pc, cand, call, ret,
                nCalls, nLoads>>

----------------------------------------------------------------------------
(* Generic helpers *)

Abs(x) == IF x < 0 THEN -x ELSE x

Min(a, b) == IF a <= b THEN a ELSE b

\* x ?? d  for an optional value
OrElse(x, d) == IF x = <<>> THEN d ELSE x[1]

RECURSIVE SumOver(_, _)
\* sum of f[i] over the finite set S of indices
SumOver(S, f) ==
    IF S = {} THEN 0
    ELSE LET i == CHOOSE j \in S : TRUE IN f[i] + SumOver(S \ {i}, f)

----------------------------------------------------------------------------
(* src/lib/impact.ts : haversineKm *)

EarthRadiusKm == 6371

\* Great-circle length of one hundredth of a degree, in tenths of a metre:
\* R * pi / 180 / 100 km = 1111.9 m.
ArcPerCentiDegree == (EarthRadiusKm * 31416) \div 18000

\* haversineKm, in metres, for the pairs of a preset location and a city of
\* the application's datasets (different meridians, off the equator)
TabulatedMetres(lat1, lon1, lat2, lon2) ==
    CASE lat1 = 2130 /\ lon1 = -8950 /\ lat2 = 2486 /\ lon2 = 6700 -> 14288697
      [] lat1 = 2130 /\ lon1 = -8950 /\ lat2 = 2487 /\ lon2 = 6700 -> 14287718
      [] lat1 = 2130 /\ lon1 = -8950 /\ lat2 = 2488 /\ lon2 = 6700 -> 14286739
      [] lat1 = 2130 /\ lon1 = -8950 /\ lat2 = 2489 /\ lon2 = 6700 -> 14285761
      [] lat1 = 2130 /\ lon1 = -8950 /\ lat2 = 2490 /\ lon2 = 6700 -> 14284782
      [] lat1 = 2130 /\ lon1 = -8950 /\ lat2 = 2491 /\ lon2 = 6700 -> 14283803
      [] lat1 = 2130 /\ lon1 = -8950 /\ lat2 = 2492 /\ lon2 = 6700 -> 14282824
      [] lat1 = 2130 /\ lon1 = -8950 /\ lat2 = 2493 /\ lon2 = 6700 -> 14281845
      [] lat1 = 2130 /\ lon1 = -8950 /\ lat2 = 2494 /\ lon2 = 6700 -> 14280866
      [] lat1 = 2130 /\ lon1 = -8950 /\ lat2 = 2495 /\ lon2 = 6700 -> 14279887
      [] lat1 = 2130 /\ lon1 = -8950 /\ lat2 = 2496 /\ lon2 = 6700 -> 14278908
      [] lat1 = 2130 /\ lon1 = -8950 /\ lat2 = 2497 /\ lon2 = 6700 -> 14277929
      [] lat1 = 2130 /\ lon1 = -8950 /\ lat2 = 2498 /\ lon2 = 6700 -> 14276950
      [] lat1 = 2130 /\ lon1 = -8950 /\ lat2 = 2499 /\ lon2 = 6700 -> 14275971
      [] lat1 = 2130 /\ lon1 = -8950 /\ lat2 = 2530 /\ lon2 = 6700 -> 14245602
      [] lat1 = 2130 /\ lon1 = -8950 /\ lat2 = 4000 /\ lon2 = 6700 -> 12776241
      [] lat1 = 6090 /\ lon1 = 10190 /\ lat2 = 2486 /\ lon2 = 6700 -> 4801050
      [] lat1 = 6090 /\ lon1 = 10190 /\ lat2 = 2487 /\ lon2 = 6700 -> 4800034
      [] lat1 = 6090 /\ lon1 = 10190 /\ lat2 = 2488 /\ lon2 = 6700 -> 4799018
      [] lat1 = 6090 /\ lon1 = 10190 /\ lat2 = 2489 /\ lon2 = 6700 -> 4798003
      [] lat1 = 6090 /\ lon1 = 10190 /\ lat2 = 2490 /\ lon2 = 6700 -> 4796987
      [] lat1 = 6090 /\ lon1 = 10190 /\ lat2 = 2491 /\ lon2 = 6700 -> 4795971
      [] lat1 = 6090 /\ lon1 = 10190 /\ lat2 = 2492 /\ lon2 = 6700 -> 4794956
      [] lat1 = 6090 /\ lon1 = 10190 /\ lat2 = 2493 /\ lon2 = 6700 -> 4793940
      [] lat1 = 6090 /\ lon1 = 10190 /\ lat2 = 2494 /\ lon2 = 6700 -> 4792924
      [] lat1 = 6090 /\ lon1 = 10190 /\ lat2 = 2495 /\ lon2 = 6700 -> 4791909
      [] lat1 = 6090 /\ lon1 = 10190 /\ lat2 = 2496 /\ lon2 = 6700 -> 4790893
      [] lat1 = 6090 /\ lon1 = 10190 /\ lat2 = 2497 /\ lon2 = 6700 -> 4789878
      [] lat1 = 6090 /\ lon1 = 10190 /\ lat2 = 2498 /\ lon2 = 6700 -> 4788862
      [] lat1 = 6090 /\ lon1 = 10190 /\ lat2 = 2499 /\ lon2 = 6700 -> 4787847
      [] lat1 = 6090 /\ lon1 = 10190 /\ lat2 = 2530 /\ lon2 = 6700 -> 4756386
      [] lat1 = 6090 /\ lon1 = 10190 /\ lat2 = 4000 /\ lon2 = 6700 -> 3320835
      [] lat1 = 5515 /\ lon1 = 6141 /\ lat2 = 2486 /\ lon2 = 6700 -> 3399110
      [] lat1 = 5515 /\ lon1 = 6141 /\ lat2 = 2487 /\ lon2 = 6700 -> 3398005
      [] lat1 = 5515 /\ lon1 = 6141 /\ lat2 = 2488 /\ lon2 = 6700 -> 3396900
      [] lat1 = 5515 /\ lon1 = 6141 /\ lat2 = 2489 /\ lon2 = 6700 -> 3395794
      [] lat1 = 5515 /\ lon1 = 6141 /\ lat2 = 2490 /\ lon2 = 6700 -> 3394689
      [] lat1 = 5515 /\ lon1 = 6141 /\ lat2 = 2491 /\ lon2 = 6700 -> 3393584
      [] lat1 = 5515 /\ lon1 = 6141 /\ lat2 = 2492 /\ lon2 = 6700 -> 3392479
      [] lat1 = 5515 /\ lon1 = 6141 /\ lat2 = 2493 /\ lon2 = 6700 -> 3391373
      [] lat1 = 5515 /\ lon1 = 6141 /\ lat2 = 2494 /\ lon2 = 6700 -> 3390268
      [] lat1 = 5515 /\ lon1 = 6141 /\ lat2 = 2495 /\ lon2 = 6700 -> 3389163
      [] lat1 = 5515 /\ lon1 = 6141 /\ lat2 = 2496 /\ lon2 = 6700 -> 3388058
      [] lat1 = 5515 /\ lon1 = 6141 /\ lat2 = 2497 /\ lon2 = 6700 -> 3386952
      [] lat1 = 5515 /\ lon1 = 6141 /\ lat2 = 2498 /\ lon2 = 6700 -> 3385847
      [] lat1 = 5515 /\ lon1 = 6141 /\ lat2 = 2499 /\ lon2 = 6700 -> 3384742
      [] lat1 = 5515 /\ lon1 = 6141 /\ lat2 = 2530 /\ lon2 = 6700 -> 3350482
      [] lat1 = 5515 /\ lon1 = 6141 /\ lat2 = 4000 /\ lon2 = 6700 -> 1734625
      [] lat1 = 4660 /\ lon1 = -8110 /\ lat2 = 2486 /\ lon2 = 6700 -> 11445634
      [] lat1 = 4660 /\ lon1 = -8110 /\ lat2 = 2487 /\ lon2 = 6700 -> 11444602
      [] lat1 = 4660 /\ lon1 = -8110 /\ lat2 = 2488 /\ lon2 = 6700 -> 11443570
      [] lat1 = 4660 /\ lon1 = -8110 /\ lat2 = 2489 /\ lon2 = 6700 -> 11442538
      [] lat1 = 4660 /\ lon1 = -8110 /\ lat2 = 2490 /\ lon2 = 6700 -> 11441506
      [] lat1 = 4660 /\ lon1 = -8110 /\ lat2 = 2491 /\ lon2 = 6700 -> 11440474
      [] lat1 = 4660 /\ lon1 = -8110 /\ lat2 = 2492 /\ lon2 = 6700 -> 11439442
      [] lat1 = 4660 /\ lon1 = -8110 /\ lat2 = 2493 /\ lon2 = 6700 -> 11438410
      [] lat1 = 4660 /\ lon1 = -8110 /\ lat2 = 2494 /\ lon2 = 6700 -> 11437378
      [] lat1 = 4660 /\ lon1 = -8110 /\ lat2 = 2495 /\ lon2 = 6700 -> 11436346
      [] lat1 = 4660 /\ lon1 = -8110 /\ lat2 = 2496 /\ lon2 = 6700 -> 11435315
      [] lat1 = 4660 /\ lon1 = -8110 /\ lat2 = 2497 /\ lon2 = 6700 -> 11434283
      [] lat1 = 4660 /\ lon1 = -8110 /\ lat2 = 2498 /\ lon2 = 6700 -> 11433251
      [] lat1 = 4660 /\ lon1 = -8110 /\ lat2 = 2499 /\ lon2 = 6700 -> 11432219
      [] lat1 = 4660 /\ lon1 = -8110 /\ lat2 = 2530 /\ lon2 = 6700 -> 11400224
      [] lat1 = 4660 /\ lon1 = -8110 /\ lat2 = 4000 /\ lon2 = 6700 -> 9878931
      [] lat1 = -4830 /\ lon1 = 16640 /\ lat2 = 2486 /\ lon2 = 6700 -> 12716264
      [] lat1 = -4830 /\ lon1 = 16640 /\ lat2 = 2487 /\ lon2 = 6700 -> 12717035
      [] lat1 = -4830 /\ lon1 = 16640 /\ lat2 = 2488 /\ lon2 = 6700 -> 12717806
      [] lat1 = -4830 /\ lon1 = 16640 /\ lat2 = 2489 /\ lon2 = 6700 -> 12718577
      [] lat1 = -4830 /\ lon1 = 16640 /\ lat2 = 2490 /\ lon2 = 6700 -> 12719348
      [] lat1 = -4830 /\ lon1 = 16640 /\ lat2 = 2491 /\ lon2 = 6700 -> 12720119
      [] lat1 = -4830 /\ lon1 = 16640 /\ lat2 = 2492 /\ lon2 = 6700 -> 12720890
      [] lat1 = -4830 /\ lon1 = 16640 /\ lat2 = 2493 /\ lon2 = 6700 -> 12721661
      [] lat1 = -4830 /\ lon1 = 16640 /\ lat2 = 2494 /\ lon2 = 6700 -> 12722431
      [] lat1 = -4830 /\ lon1 = 16640 /\ lat2 = 2495 /\ lon2 = 6700 -> 12723202
      [] lat1 = -4830 /\ lon1 = 16640 /\ lat2 = 2496 /\ lon2 = 6700 -> 12723973
      [] lat1 = -4830 /\ lon1 = 16640 /\ lat2 = 2497 /\ lon2 = 6700 -> 12724744
      [] lat1 = -4830 /\ lon1 = 16640 /\ lat2 = 2498 /\ lon2 = 6700 -> 12725514
      [] lat1 = -4830 /\ lon1 = 16640 /\ lat2 = 2499 /\ lon2 = 6700 -> 12726285
      [] lat1 = -4830 /\ lon1 = 16640 /\ lat2 = 2530 /\ lon2 = 6700 -> 12750150
      [] lat1 = -4830 /\ lon1 = 16640 /\ lat2 = 4000 /\ lon2 = 6700 -> 13818707

\* haversineKm for the point pairs the model uses.  For two points on one
\* meridian and two points on the equator the haversine formula reduces to
\* R * (angle between the points); the other pairs are tabulated.  Result in
\* metres.
haversineKm(lat1, lon1, lat2, lon2) ==
    CASE lon1 = lon2 -> (Abs(lat2 - lat1) * ArcPerCentiDegree) \div 10
      [] lon1 # lon2 /\ lat1 = 0 /\ lat2 = 0 ->
            (Min(Abs(lon2 - lon1), 36000 - Abs(lon2 - lon1)) * ArcPerCentiDegree) \div 10
      [] lon1 # lon2 /\ ~(lat1 = 0 /\ lat2 = 0) -> TabulatedMetres(lat1, lon1, lat2, lon2)

----------------------------------------------------------------------------
(* src/lib/impact.ts : populationAffectedByZones *)

\* the mutant of withinRadius: an exclusive threshold
withinRadiusStrict(dist, radius) == dist < radius

\* `dist <= radius` of the three zone tests
withinRadius(dist, radius) == dist <= radius

\* the mutant of zonesOf: exclusive bands (else-if), innermost zone only
zonesOfExclusive(dist, craterRadius_km, blast_km, thermal_km) ==
    IF withinRadius(dist, craterRadius_km) THEN <<"crater">>
    ELSE IF withinRadius(dist, blast_km) THEN <<"blast">>
    ELSE IF withinRadius(dist, thermal_km) THEN <<"thermal">>
    ELSE <<>>

\* the zones array built by the three independent if statements
zonesOf(dist, craterRadius_km, blast_km, thermal_km) ==
    (IF withinRadius(dist, craterRadius_km) THEN <<"crater">> ELSE <<>>)
    \o (IF withinRadius(dist, blast_km) THEN <<"blast">> ELSE <<>>)
    \o (IF withinRadius(dist, thermal_km) THEN <<"thermal">> ELSE <<>>)

InZones(z, zones) == \E i \in 1..Len(zones) : zones[i] = z

\* if (zones.length > 0) cityResults.push({...})
recordCity(cityResults, f, pop, dist, zones) ==
    IF Len(zones) > 0
    THEN Append(cityResults,
                [city |-> f.city, country |-> f.country, population |-> pop,
                 distance_km |-> dist, zones |-> zones])
    ELSE cityResults

\* one iteration of `for (const f of cities)`
zoneLoopBody(acc, f, centerLat, centerLng, blast_km, thermal_km, craterRadius_km) ==
    LET pop == OrElse(f.population, 0)
        dist == haversineKm(centerLat, centerLng, f.lat, f.lon)
        zones == zonesOf(dist, craterRadius_km, blast_km, thermal_km)
    IN [craterPop |-> acc.craterPop + (IF InZones("crater", zones) THEN pop ELSE 0),
        blastPop |-> acc.blastPop + (IF InZones("blast", zones) THEN pop ELSE 0),
        thermalPop |-> acc.thermalPop + (IF InZones("thermal", zones) THEN pop ELSE 0),
        cityResults |-> recordCity(acc.cityResults, f, pop, dist, zones)]

RECURSIVE zoneLoop(_, _, _, _, _, _, _, _)
zoneLoop(acc, cities, i, centerLat, centerLng, blast_km, thermal_km, craterRadius_km) ==
    IF i > Len(cities) THEN acc
    ELSE zoneLoop(zoneLoopBody(acc, cities[i], centerLat, centerLng,
                               blast_km, thermal_km, craterRadius_km),
                  cities, i + 1, centerLat, centerLng, blast_km, thermal_km,
                  craterRadius_km)

\* the mutant of populationGreater: a comparator that also moves b before a
\* when the populations are equal
populationGreaterOrEqual(b, a) == b.population >= a.population

\* the comparator (a, b) => (b.population ?? 0) - (a.population ?? 0) is
\* positive, i.e. b must come before a, exactly when b's population is greater
populationGreater(b, a) == b.population > a.population

RECURSIVE insertSorted(_, _)
\* e placed after every element it must not precede (stable insertion)
insertSorted(sorted, e) ==
    IF sorted = <<>> THEN <<e>>
    ELSE LET last == sorted[Len(sorted)]
         IN IF populationGreater(e, last)
            THEN Append(insertSorted(SubSeq(sorted, 1, Len(sorted) - 1), e), last)
            ELSE Append(sorted, e)

RECURSIVE sortCityResults(_)
\* cityResults.sort(comparator): Array.prototype.sort is a stable sort
sortCityResults(s) ==
    IF s = <<>> THEN <<>>
    ELSE insertSorted(sortCityResults(SubSeq(s, 1, Len(s) - 1)), s[Len(s)])

populationAffectedByZones(cities, centerLat, centerLng, blast_km, thermal_km, craterRadius_km) ==
    LET acc == zoneLoop([craterPop |-> 0, blastPop |-> 0, thermalPop |-> 0,
                         cityResults |-> <<>>],
                        cities, 1, centerLat, centerLng, blast_km, thermal_km,
                        craterRadius_km)
    IN [craterPop |-> acc.craterPop,
        blastPop |-> acc.blastPop,
        thermalPop |-> acc.thermalPop,
        cityResults |-> sortCityResults(acc.cityResults)]

----------------------------------------------------------------------------
(* Inputs of the aggregator *)

MaxCities == 3

Feature(name, country, lat, population) ==
    [city |-> name, country |-> country, lat |-> lat, lon |-> 0,
     population |-> population]

\* City features on the meridian of the impact point: about 10, 50 and 200 km
\* north of it (populations 100, 200, 300), one at the centre without a
\* population, one 50 km south with population 0, one with a negative
\* population, and one at the centre whose population ties with another's.
CityPool ==
    { Feature("A", <<"X">>, 9, <<100>>),
      Feature("B", <<"X">>, 45, <<200>>),
      Feature("C", <<>>, 180, <<300>>),
      Feature("D", <<"Y">>, 0, <<>>),
      Feature("E", <<"Y">>, -45, <<0>>),
      Feature("F", <<>>, 9, <<-5>>),
      Feature("G", <<"Y">>, 0, <<200>>) }

RadiiKm == {0, 20, 100, 250}

SeqsUpTo(S, n) == UNION { [1..k -> S] : k \in 0..n }

AggInputs ==
    [cities : SeqsUpTo(CityPool, MaxCities),
     centerLat : {0},
     centerLng : {0},
     blast_km : {r * 1000 : r \in RadiiKm},
     thermal_km : {r * 1000 : r \in RadiiKm},
     craterRadius_km : {r * 1000 : r \in RadiiKm}]

AggIdleIn ==
    [cities |-> <<>>, centerLat |-> 0, centerLng |-> 0, blast_km |-> 0,
     thermal_km |-> 0, craterRadius_km |-> 0]

CallAggregator ==
    /\ aggOut = <<>>
    /\ aggOut' = <<populationAffectedByZones(aggIn.cities, aggIn.centerLat,
                                             aggIn.centerLng, aggIn.blast_km,
                                             aggIn.thermal_km, aggIn.craterRadius_km)>>
    /\ UNCHANGED aggIn

----------------------------------------------------------------------------
(* src/lib/physics.ts : simulateImpactor, parameter validation *)

\* A JavaScript number or undefined: k is "undefined", "NaN", "+Infinity",
\* "-Infinity", "num" (then v is its value) or "pow10" (then it is 10^v).
Undefined == [k |-> "undefined", v |-> 0]
NaN == [k |-> "NaN", v |-> 0]
PosInfinity == [k |-> "+Infinity", v |-> 0]
NegInfinity == [k |-> "-Infinity", v |-> 0]
Num(n) == [k |-> "num", v |-> n]

\* the number 10^e, for the numbers beyond the integers of the model (1e120)
Pow10(e) == [k |-> "pow10", v |-> e]

\* ToBoolean of a number or undefined: undefined, NaN and 0 are falsy
Truthy(x) == x.k \in {"+Infinity", "-Infinity", "pow10"} \/ (x.k = "num" /\ x.v # 0)

\* the guard of simulateImpactor that throws 'Invalid impact parameters'
invalidParameters(p) ==
    \/ ~Truthy(p.diameter_m)
    \/ ~Truthy(p.density_kgm3)
    \/ ~Truthy(p.velocity_kms)
    \/ ~Truthy(p.angle_deg)
    \/ p.lat = Undefined
    \/ p.lng = Undefined

----------------------------------------------------------------------------
(* src/lib/physics.ts : the arithmetic of the physics functions.            *)
(* Every formula is a product of powers, so a quantity is kept by its sign  *)
(* and the decimal logarithm of its magnitude: [k, s, lg] with k "NaN",     *)
(* "Infinity" or "num", s the sign (-1, 0, 1) and lg = 10^4 * log10 |x|,    *)
(* rounded to an integer.  Multiplying adds lg, x^(a/b) multiplies lg by    *)
(* a/b.  The special values follow IEEE 754 as Math.* and the operators of  *)
(* JavaScript do: a result beyond the largest double is Infinity, one      *)
(* below half the smallest double is 0.                                     *)

QNaN == [k |-> "NaN", s |-> 0, lg |-> 0]
QInf(sign) == [k |-> "Infinity", s |-> sign, lg |-> 0]
QZero == [k |-> "num", s |-> 0, lg |-> 0]
QNum(sign, lg) == [k |-> "num", s |-> sign, lg |-> lg]

\* 10^4 * log10 of Number.MAX_VALUE (1.7976931348623157e308) and of 2^-1075,
\* half of Number.MIN_VALUE
LgMaxValue == 3082547
LgMinValue == -3236072

\* the double an arithmetic result is rounded to: overflow gives +/-Infinity,
\* underflow gives 0
toDouble(q) ==
    IF q.k = "num" /\ q.s # 0
    THEN IF q.lg > LgMaxValue THEN QInf(q.s)
         ELSE IF q.lg < LgMinValue THEN QZero
         ELSE q
    ELSE q

\* 10^4 * log10(n) for the integers that occur in the formulas and inputs
Log10E4(n) ==
    CASE n = 1 -> 0
      [] n = 2 -> 3010
      [] n = 3 -> 4771
      [] n = 4 -> 6021
      [] n = 10 -> 10000
      [] n = 15 -> 11761
      [] n = 17 -> 12304
      [] n = 18 -> 12553
      [] n = 19 -> 12788
      [] n = 20 -> 13010
      [] n = 30 -> 14771
      [] n = 45 -> 16532
      [] n = 48 -> 16812
      [] n = 60 -> 17782
      [] n = 100 -> 20000
      [] n = 200 -> 23010
      [] n = 300 -> 24771
      [] n = 500 -> 26990
      [] n = 981 -> 29917
      [] n = 1000 -> 30000
      [] n = 1161 -> 30648
      [] n = 2700 -> 34314
      [] n = 3000 -> 34771
      [] n = 4184 -> 36216
      [] n = 6371 -> 38042
      [] n = 8000 -> 39031
      [] n = 12000 -> 40792
      [] n = 13500 -> 41303
      [] n = 14000 -> 41461
      [] n = 15000 -> 41761
      [] n = 20000 -> 43010
      [] n = 10000000 -> 70000

\* 10^4 * log10(Math.PI)
LgPi == 4971

\* 10^4 * log10(sin(deg * PI / 180)) for 0 < deg <= 90
LgSin(deg) ==
    CASE deg = 5 -> -10597
      [] deg = 15 -> -5870
      [] deg = 30 -> -3010
      [] deg = 45 -> -1505
      [] deg = 60 -> -625
      [] deg = 90 -> 0

\* the quantity of an input number
toQ(x) ==
    CASE x.k = "NaN" -> QNaN
      [] x.k = "+Infinity" -> QInf(1)
      [] x.k = "-Infinity" -> QInf(-1)
      [] x.k = "num" -> IF x.v = 0 THEN QZero
                        ELSE QNum(IF x.v < 0 THEN -1 ELSE 1, Log10E4(Abs(x.v)))
      [] x.k = "pow10" -> QNum(1, 10000 * x.v)

\* a * b
QMul(a, b) ==
    CASE a.k = "NaN" \/ b.k = "NaN" -> QNaN
      [] a.s * b.s = 0 -> IF a.k = "Infinity" \/ b.k = "Infinity" THEN QNaN ELSE QZero
      [] a.k = "Infinity" \/ b.k = "Infinity" -> QInf(a.s * b.s)
      [] OTHER -> toDouble(QNum(a.s * b.s, a.lg + b.lg))

\* a times (lgc > 0) or divided by (lgc < 0) a positive constant given by its
\* logarithm
QScale(a, lgc) == IF a.k = "num" /\ a.s # 0 THEN toDouble(QNum(a.s, a.lg + lgc)) ELSE a

\* Math.pow(a, num / den) for a positive exponent that is not an integer
QPowFrac(a, num, den) ==
    CASE a.k = "NaN" -> QNaN
      [] a.k = "Infinity" -> QInf(1)
      [] a.s = 0 -> QZero
      [] a.s < 0 -> QNaN
      [] OTHER -> toDouble(QNum(1, (a.lg * num) \div den))

\* Math.pow(a, n) for the integers n = 2 and n = 3
QPowInt(a, n) ==
    LET sign == IF n % 2 = 0 THEN a.s * a.s ELSE a.s
    IN CASE a.k = "NaN" -> QNaN
         [] a.k = "Infinity" -> QInf(sign)
         [] a.s = 0 -> QZero
         [] OTHER -> toDouble(QNum(sign, a.lg * n))

\* the place of a quantity that is not NaN in the order of the numbers
QTier(a) == IF a.k = "Infinity" THEN 2 * a.s ELSE a.s

\* a < b
QLt(a, b) ==
    /\ a.k # "NaN" /\ b.k # "NaN"
    /\ \/ QTier(a) < QTier(b)
       \/ QTier(a) = QTier(b) /\ a.k = "num" /\ a.s * a.lg < b.s * b.lg

\* a > b
QGt(a, b) == QLt(b, a)

\* a <= b
QLe(a, b) == a.k # "NaN" /\ b.k # "NaN" /\ ~QLt(b, a)

\* Math.max(a, b)
QMax(a, b) == IF a.k = "NaN" \/ b.k = "NaN" THEN QNaN ELSE IF QLt(a, b) THEN b ELSE a

\* Math.min(a, b)
QMin(a, b) == IF a.k = "NaN" \/ b.k = "NaN" THEN QNaN ELSE IF QLt(b, a) THEN b ELSE a

\* Math.sin((angle_deg * Math.PI) / 180) for -180 < angle_deg < 180
sinOfDegrees(angle_deg) ==
    CASE angle_deg.k \in {"NaN", "+Infinity", "-Infinity"} -> QNaN
      [] angle_deg.k = "num" ->
            IF angle_deg.v = 0 THEN QZero
            ELSE QNum(IF angle_deg.v < 0 THEN -1 ELSE 1, LgSin(Abs(angle_deg.v)))

\* A magnitude is a number on a linear scale: NaN or Num(v), v in units of
\* 10^-4.  Math.min / Math.max of two of them:
MagMin(a, b) == IF a.k = "NaN" \/ b.k = "NaN" THEN NaN ELSE IF b.v < a.v THEN b ELSE a

MagMax(a, b) == IF a.k = "NaN" \/ b.k = "NaN" THEN NaN ELSE IF b.v > a.v THEN b ELSE a

----------------------------------------------------------------------------
(* src/lib/physics.ts : the physics functions *)

\* Math.pow(G, -0.22), G = 9.81
LgGravityTerm == -((22 * (Log10E4(981) - Log10E4(100))) \div 100)

\* k = 1.161
LgK == Log10E4(1161) - Log10E4(1000)

\* the safety cap of the crater diameter
CRATER_MAX_KM == 12000

EARTH_RADIUS_KM == 6371

\* MT_JOULES = 4.184e15
LgMtJoules == Log10E4(4184) + 12 * Log10E4(10)

\* BLAST_FACTOR = 3.0, THERMAL_FACTOR = 1.8
LgBlastFactor == Log10E4(3)
LgThermalFactor == Log10E4(18) - Log10E4(10)

\* the bounds 0 and 12 of a magnitude
MinMagnitude == Num(0)
MaxMagnitude == Num(120000)

joulestoMegatons(energy_j) == QScale(energy_j, -LgMtJoules)

metersToKilometers(meters) == QScale(meters, -Log10E4(1000))

\* (4 / 3) * Math.PI * Math.pow(diameter_m / 2, 3) * density_kgm3
massFromDiameter(diameter_m, density_kgm3) ==
    LET r == QScale(diameter_m, -Log10E4(2))
    IN QMul(QScale(QPowInt(r, 3), Log10E4(4) - Log10E4(3) + LgPi), density_kgm3)

\* Collins-style scaling, capped to [0, CRATER_MAX_KM] km; the result in metres
craterDiameterMeters(diameter_m, density_kgm3, velocity_mps, angle_deg) ==
    LET vEff == QMax(QMul(velocity_mps, sinOfDegrees(angle_deg)), QNum(1, Log10E4(10)))
        asteroidRadius_m == QScale(diameter_m, -Log10E4(2))
        velocityTerm == QPowFrac(vEff, 44, 100)
        densityRatio == QPowFrac(QScale(density_kgm3, -Log10E4(2700)), 1, 3)
        sizeTerm == QPowFrac(asteroidRadius_m, 78, 100)
        D_m_raw == QMul(QMul(QMul(QNum(1, LgK + LgGravityTerm), velocityTerm),
                             densityRatio), sizeTerm)
        D_km == QScale(D_m_raw, -Log10E4(1000))
        cappedKm == QMin(QMax(D_km, QZero), QNum(1, Log10E4(CRATER_MAX_KM)))
    IN QScale(cappedKm, Log10E4(1000))

\* the estimate without its clamp to [0, 12]
seismicMagnitudeUnclamped(E_j) ==
    LET x == QMax(E_j, QNum(1, 0))
    IN CASE x.k = "NaN" -> NaN
         [] x.k = "Infinity" -> PosInfinity
         [] OTHER -> Num((67 * x.lg) \div 100 - 58700)

\* 0.67 * Math.log10(Math.max(E_j, 1)) - 5.87, clamped to [0, 12]
seismicMagnitudeEstimate(E_j) ==
    LET x == QMax(E_j, QNum(1, 0))
        magnitude == CASE x.k = "NaN" -> NaN
                       [] x.k = "Infinity" -> PosInfinity
                       [] OTHER -> Num((67 * x.lg) \div 100 - 58700)
    IN IF magnitude.k = "NaN" THEN NaN
       ELSE IF magnitude.k = "+Infinity" THEN MaxMagnitude
       ELSE MagMin(MagMax(magnitude, MinMagnitude), MaxMagnitude)

\* calculateImpactEnergy: 0.5 * (4/3 * PI * radius^3 * density) * (1000 v)^2
calculateImpactEnergy(diameter_m, density_kgm3, velocity_kms) ==
    LET radius == QScale(diameter_m, -Log10E4(2))
        volume == QScale(QPowInt(radius, 3), Log10E4(4) - Log10E4(3) + LgPi)
        mass_kg == QMul(volume, density_kgm3)
        velocity_mps == QScale(velocity_kms, Log10E4(1000))
    IN QMul(QScale(mass_kg, -Log10E4(2)), QPowInt(velocity_mps, 2))

\* diameter_m <= 15000 && craterKm > 200
smallBodyCapApplies(diameter_m, craterKm) ==
    QLe(diameter_m, QNum(1, Log10E4(15000))) /\ QGt(craterKm, QNum(1, Log10E4(200)))

\* the mutant of capAtEarthRadius: the radius is never cut
capAtEarthRadiusNever(r) == r

\* if (r > EARTH_RADIUS_KM) r = EARTH_RADIUS_KM
capAtEarthRadius(r) ==
    IF QGt(r, QNum(1, Log10E4(EARTH_RADIUS_KM)))
    THEN QNum(1, Log10E4(EARTH_RADIUS_KM)) ELSE r

\* The outcome of a call: the thrown error, or the returned result.
simulateImpactor(p) ==
    IF invalidParameters(p)
    THEN [threw |-> TRUE, impact_energy_j |-> QNaN, impact_energy_mt |-> QNaN,
          crater_m |-> QNaN, crater_km |-> QNaN, blast_radius_m |-> QNaN,
          blast_radius_km |-> QNaN, thermal_radius_m |-> QNaN,
          thermal_radius_km |-> QNaN, seismic_magnitude |-> NaN,
          latitude |-> Undefined, longitude |-> Undefined]
    ELSE LET diameter_m == toQ(p.diameter_m)
             density_kgm3 == toQ(p.density_kgm3)
             velocity_kms == toQ(p.velocity_kms)
             impactEnergy == calculateImpactEnergy(diameter_m, density_kgm3, velocity_kms)
             craterDiameter0 == craterDiameterMeters(diameter_m, density_kgm3,
                                    QScale(velocity_kms, Log10E4(1000)), p.angle_deg)
             craterKm0 == metersToKilometers(craterDiameter0)
             capped == smallBodyCapApplies(diameter_m, craterKm0)
             craterKm == IF capped THEN QNum(1, Log10E4(200)) ELSE craterKm0
             craterDiameter == IF capped THEN QScale(craterKm, Log10E4(1000))
                               ELSE craterDiameter0
             craterRadiusKm == QScale(craterKm, -Log10E4(2))
             blastRadiusKm == capAtEarthRadius(QScale(craterRadiusKm, LgBlastFactor))
             thermalRadiusKm == capAtEarthRadius(QScale(craterRadiusKm, LgThermalFactor))
         IN [threw |-> FALSE,
             impact_energy_j |-> impactEnergy,
             impact_energy_mt |-> joulestoMegatons(impactEnergy),
             crater_m |-> craterDiameter,
             crater_km |-> craterKm,
             blast_radius_m |-> QScale(blastRadiusKm, Log10E4(1000)),
             blast_radius_km |-> blastRadiusKm,
             thermal_radius_m |-> QScale(thermalRadiusKm, Log10E4(1000)),
             thermal_radius_km |-> thermalRadiusKm,
             seismic_magnitude |-> MagMin(seismicMagnitudeEstimate(impactEnergy), MaxMagnitude),
             latitude |-> p.lat, longitude |-> p.lng]

PhysInputs ==
    [diameter_m : {Undefined, NaN, PosInfinity, NegInfinity, Num(-100), Num(0), Num(100),
                   Num(15000), Num(20000), Num(10000000), Pow10(-120), Pow10(120)},
     density_kgm3 : {Undefined, NaN, PosInfinity, Num(-3000), Num(0), Num(3000)},
     velocity_kms : {Undefined, NaN, PosInfinity, Num(-20), Num(0), Num(20), Num(1000),
                     Pow10(160)},
     angle_deg : {Undefined, NaN, PosInfinity, Num(-5), Num(0), Num(15), Num(45), Num(90)},
     lat : {Undefined, Num(0)},
     lng : {Undefined, Num(0)}]

PhysIdleParams ==
    [diameter_m |-> Undefined, density_kgm3 |-> Undefined,
     velocity_kms |-> Undefined, angle_deg |-> Undefined,
     lat |-> Undefined, lng |-> Undefined]

CallSimulateImpactor ==
    /\ simOut = <<>>
    /\ simOut' = <<simulateImpactor(params)>>
    /\ UNCHANGED params

\* Energies in joules: -Infinity, -10^5, 0, 10^-0.5, 1, 10^5, the two
\* neighbours of the energy of magnitude 0 (10^8.7612), 10^12, 10^15, the
\* two neighbours of the energy of magnitude 12 (10^26.6716), 10^30, +Infinity.
Energies ==
    {QInf(-1), QNum(-1, 50000), QZero, QInf(1)}
        \cup {QNum(1, lg) : lg \in {-5000, 0, 50000, 87611, 87613, 120000, 150000,
                                    266716, 266717, 300000}}

SeisInputs == Energies \X Energies

SeisIdleIn == <<QZero, QZero>>

CallSeismicMagnitudeEstimate ==
    /\ seisOut = <<>>
    /\ seisOut' = <<seismicMagnitudeEstimate(seisIn[1]), seismicMagnitudeEstimate(seisIn[2])>>
    /\ UNCHANGED seisIn

----------------------------------------------------------------------------
(* Strings: a string is a sequence of characters, a character is a token.   *)
(* Besides the ASCII letters and the space there are "a-acute" (the         *)
(* precomposed letter), "acute" (the combining mark U+0301) and             *)
(* "P-fullwidth" / "p-fullwidth" (U+FF30 / U+FF50, compatibility forms).    *)

UpperCase == <<"A", "B", "C", "D", "E", "F", "G", "H", "I", "J", "K", "L", "M",
               "N", "O", "P", "Q", "R", "S", "T", "U", "V", "W", "X", "Y", "Z">>
LowerCase == <<"a", "b", "c", "d", "e", "f", "g", "h", "i", "j", "k", "l", "m",
               "n", "o", "p", "q", "r", "s", "t", "u", "v", "w", "x", "y", "z">>

RECURSIVE Concat(_)
\* the concatenation of a sequence of sequences
Concat(ss) == IF ss = <<>> THEN <<>> ELSE Head(ss) \o Concat(Tail(ss))

\* String.prototype.toLowerCase, per character
toLowerCaseChar(ch) ==
    IF \E i \in 1..26 : UpperCase[i] = ch
    THEN LowerCase[CHOOSE i \in 1..26 : UpperCase[i] = ch]
    ELSE IF ch = "P-fullwidth" THEN "p-fullwidth" ELSE ch

toLowerCase(s) == [i \in 1..Len(s) |-> toLowerCaseChar(s[i])]

\* canonical decomposition of one character (normalize('NFD'))
nfdChar(ch) == IF ch = "a-acute" THEN <<"a", "acute">> ELSE <<ch>>

\* compatibility decomposition of one character (normalize('NFKD'))
nfkdChar(ch) ==
    CASE ch = "a-acute" -> <<"a", "acute">>
      [] ch = "P-fullwidth" -> <<"P">>
      [] ch = "p-fullwidth" -> <<"p">>
      [] OTHER -> <<ch>>

\* s.normalize('NFD')
normalizeNFD(s) == Concat([i \in 1..Len(s) |-> nfdChar(s[i])])

\* s.normalize('NFKD')
normalizeNFKD(s) == Concat([i \in 1..Len(s) |-> nfkdChar(s[i])])

\* .replace(/\p{Diacritic}/gu, '')
stripDiacritics(s) == SelectSeq(s, LAMBDA ch : ch # "acute")

IsSpace(ch) == ch = " "

RECURSIVE trimStart(_)
trimStart(s) == IF s # <<>> /\ IsSpace(Head(s)) THEN trimStart(Tail(s)) ELSE s

RECURSIVE trimEnd(_)
trimEnd(s) ==
    IF s # <<>> /\ IsSpace(s[Len(s)]) THEN trimEnd(SubSeq(s, 1, Len(s) - 1)) ELSE s

\* String.prototype.trim
trim(s) == trimEnd(trimStart(s))

startsWith(s, q) == Len(q) <= Len(s) /\ SubSeq(s, 1, Len(q)) = q

includes(s, q) ==
    \E i \in 0..(Len(s) - Len(q)) : SubSeq(s, i + 1, i + Len(q)) = q

RECURSIVE splitWhitespace(_)
\* s.split(/\s+/): the pieces between the runs of whitespace; a run at either
\* end of s leaves an empty piece there
splitWhitespace(s) ==
    IF \A i \in 1..Len(s) : ~IsSpace(s[i]) THEN <<s>>
    ELSE LET i == CHOOSE k \in 1..Len(s) :
                      IsSpace(s[k]) /\ \A j \in 1..(k - 1) : ~IsSpace(s[j])
             rest == trimStart(SubSeq(s, i, Len(s)))
         IN <<SubSeq(s, 1, i - 1)>> \o splitWhitespace(rest)

----------------------------------------------------------------------------
(* src/unnamed/part_004 : searchCities;  src/lib/geocoding.ts :              *)
(* rankAndFilterCities                                                      *)

\* CityRecord; lat and lon in hundredths of a degree
City(name, country, lat, lon, population) ==
    [name |-> name, country |-> country, lat |-> lat, lon |-> lon,
     population |-> population]

\* query.normalize('NFKD').replace(/\p{Diacritic}/gu, '').trim().toLowerCase()
normalizeQuery(query) == toLowerCase(trim(stripDiacritics(normalizeNFKD(query))))

\* (city.name || '').normalize('NFKD').replace(/\p{Diacritic}/gu, '').toLowerCase()
normalizeName(name) == toLowerCase(stripDiacritics(normalizeNFKD(name)))

\* normalizeString of lib/geocoding.ts: s.normalize('NFD'), strip, lower-case
normalizeString(s) == toLowerCase(stripDiacritics(normalizeNFD(s)))

\* the mutant of bucketOf: the word-start test comes last
bucketOfSubstringFirst(name, q) ==
    IF startsWith(name, q) THEN "prefix"
    ELSE IF includes(name, q) THEN "substring"
    ELSE IF \E k \in 1..Len(splitWhitespace(name)) :
                startsWith(splitWhitespace(name)[k], q) THEN "wordStart"
    ELSE "none"

\* the if / else-if chain that picks a city's bucket from its normalised name
bucketOf(name, q) ==
    IF startsWith(name, q) THEN "prefix"
    ELSE IF \E k \in 1..Len(splitWhitespace(name)) :
                startsWith(splitWhitespace(name)[k], q) THEN "wordStart"
    ELSE IF includes(name, q) THEN "substring"
    ELSE "none"

\* (c.population || 0): a missing population and 0 both give 0
popOrZero(c) == IF c.population = <<>> THEN 0 ELSE c.population[1]

\* the mutant of popSortBefore: ascending
popSortBeforeAscending(b, a) == popOrZero(b) < popOrZero(a)

\* popSort(a, b) = (b.population || 0) - (a.population || 0) is positive, i.e.
\* b goes before a, exactly when b's population is the greater
popSortBefore(b, a) == popOrZero(b) > popOrZero(a)

RECURSIVE insertByPop(_, _)
insertByPop(sorted, e) ==
    IF sorted = <<>> THEN <<e>>
    ELSE LET last == sorted[Len(sorted)]
         IN IF popSortBefore(e, last)
            THEN Append(insertByPop(SubSeq(sorted, 1, Len(sorted) - 1), e), last)
            ELSE Append(sorted, e)

RECURSIVE sortBucket(_)
\* bucket.sort(popSort): a stable sort
sortBucket(s) ==
    IF s = <<>> THEN <<>>
    ELSE insertByPop(sortBucket(SubSeq(s, 1, Len(s) - 1)), s[Len(s)])

\* merged.slice(0, limit), for the non-negative limits the callers pass
sliceTo(s, n) == SubSeq(s, 1, Min(n, Len(s)))

\* the loop over the cities, the three sorts, the merge and the slice, given
\* the normalised query and the normalised name of each city
rankBuckets(items, names, q, limit) ==
    LET picked(b) == SelectSeq([i \in 1..Len(items) |-> i],
                               LAMBDA i : bucketOf(names[i], q) = b)
        bucket(b) == [k \in 1..Len(picked(b)) |-> items[picked(b)[k]]]
        merged == sortBucket(bucket("prefix")) \o sortBucket(bucket("wordStart"))
                  \o sortBucket(bucket("substring"))
    IN sliceTo(merged, limit)

\* searchCities after `await ensureLoaded()`, on the loaded citiesFlat
searchCitiesOn(flat, query, limit) ==
    LET q == normalizeQuery(query)
    IN IF q = <<>> THEN <<>> ELSE rankBuckets(flat, [i \in 1..Len(flat) |-> normalizeName(flat[i].name)],
                       q, limit)

rankAndFilterCities(items, q, maxResults) ==
    LET qNorm == normalizeString(trim(q))
    IN IF qNorm = <<>> THEN <<>>
       ELSE rankBuckets(items, [i \in 1..Len(items) |-> normalizeString(items[i].name)],
                        qNorm, maxResults)

----------------------------------------------------------------------------
(* src/unnamed/part_004 : the grid index and reverseGeocode *)

Range(s) == {s[i] : i \in 1..Len(s)}

\* the integer part of x / 100, rounded towards zero
Truncate(x) == IF x < 0 THEN -((-x) \div 100) ELSE x \div 100

\* the mutant of toGridKey: the key is truncated instead of floored
toGridKeyTruncated(lat, lon) == <<Truncate(lat), Truncate(lon)>>

\* `${Math.floor(lat)},${Math.floor(lon)}`, as the pair of the two integers
toGridKey(lat, lon) == <<lat \div 100, lon \div 100>>

\* the keys of the cells from floor(lat - r) to floor(lat + r) and
\* floor(lon - r) to floor(lon + r), latitude-major
getNeighborKeys(lat, lon, radiusInDegrees) ==
    LET latStart == (lat - radiusInDegrees * 100) \div 100
        latEnd == (lat + radiusInDegrees * 100) \div 100
        lonStart == (lon - radiusInDegrees * 100) \div 100
        lonEnd == (lon + radiusInDegrees * 100) \div 100
        nLon == lonEnd - lonStart + 1
    IN [i \in 1..((latEnd - latStart + 1) * nLon) |->
            <<latStart + ((i - 1) \div nLon), lonStart + ((i - 1) % nLon)>>]

\* the Map built at the end of ensureLoaded: each cell's list holds its
\* cities in citiesFlat order
buildIndex(flat) ==
    [key \in {toGridKey(c.lat, c.lon) : c \in Range(flat)} |->
        SelectSeq(flat, LAMBDA c : toGridKey(c.lat, c.lon) = key)]

EmptyIndex == [key \in {} |-> <<>>]

\* the cities met by `for (const key of keys) for (const c of gridIndex.get(key))`
citiesOfCells(index, keys) ==
    LET filled == SelectSeq(keys, LAMBDA key : key \in DOMAIN index)
    IN Concat([i \in 1..Len(filled) |-> index[filled[i]]])

\* The hand-written bounding boxes of getExpectedCountry, in source order:
\* the continent box, the country rectangle (lat min, lat max, lon min,
\* lon max, hundredths of a degree, lon already wrapped to 0..360) and the
\* name returned.
ExpectedCountryRules ==
    << [box |-> <<2400, 7100, 16700, 30000>>, rect |-> <<2450, 4900, 23500, 30000>>,
        name |-> <<"u", "n", "i", "t", "e", "d", " ", "s", "t", "a", "t", "e", "s">>],
       [box |-> <<2400, 7100, 16700, 30000>>, rect |-> <<4170, 8310, 23500, 30000>>,
        name |-> <<"c", "a", "n", "a", "d", "a">>],
       [box |-> <<2400, 7100, 16700, 30000>>, rect |-> <<1450, 3270, 23500, 27500>>,
        name |-> <<"m", "e", "x", "i", "c", "o">>],
       [box |-> <<-5600, 1200, 28000, 36000>>, rect |-> <<-3380, 530, 28000, 36000>>,
        name |-> <<"b", "r", "a", "z", "i", "l">>],
       [box |-> <<-5600, 1200, 28000, 36000>>, rect |-> <<-5510, -2180, 28000, 36000>>,
        name |-> <<"a", "r", "g", "e", "n", "t", "i", "n", "a">>],
       [box |-> <<-5600, 1200, 28000, 36000>>, rect |-> <<-5600, -1750, 28000, 36000>>,
        name |-> <<"c", "h", "i", "l", "e">>],
       [box |-> <<-5600, 1200, 28000, 36000>>, rect |-> <<-1830, 0, 28000, 36000>>,
        name |-> <<"p", "e", "r", "u">>],
       [box |-> <<-5600, 1200, 28000, 36000>>, rect |-> <<-420, 1250, 28000, 36000>>,
        name |-> <<"c", "o", "l", "o", "m", "b", "i", "a">>],
       [box |-> <<-5600, 1200, 28000, 36000>>, rect |-> <<60, 1590, 28000, 36000>>,
        name |-> <<"v", "e", "n", "e", "z", "u", "e", "l", "a">>],
       [box |-> <<3500, 7100, 0, 4000>>, rect |-> <<4120, 8190, 1960, 4000>>,
        name |-> <<"r", "u", "s", "s", "i", "a">>],
       [box |-> <<3500, 7100, 0, 4000>>, rect |-> <<4730, 5510, 590, 1500>>,
        name |-> <<"g", "e", "r", "m", "a", "n", "y">>],
       [box |-> <<3500, 7100, 0, 4000>>, rect |-> <<4130, 5110, -510, 960>>,
        name |-> <<"f", "r", "a", "n", "c", "e">>],
       [box |-> <<3500, 7100, 0, 4000>>, rect |-> <<4990, 6080, -820, 180>>,
        name |-> <<"u", "n", "i", "t", "e", "d", " ", "k", "i", "n", "g", "d", "o", "m">>],
       [box |-> <<3500, 7100, 0, 4000>>, rect |-> <<3550, 4710, 660, 1850>>,
        name |-> <<"i", "t", "a", "l", "y">>],
       [box |-> <<3500, 7100, 0, 4000>>, rect |-> <<3520, 4380, -930, 430>>,
        name |-> <<"s", "p", "a", "i", "n">>],
       [box |-> <<3500, 7100, 0, 4000>>, rect |-> <<4900, 5480, 1410, 2410>>,
        name |-> <<"p", "o", "l", "a", "n", "d">>],
       [box |-> <<3500, 7100, 0, 4000>>, rect |-> <<4440, 5240, 2210, 4020>>,
        name |-> <<"u", "k", "r", "a", "i", "n", "e">>],
       [box |-> <<-1100, 7100, 4000, 18000>>, rect |-> <<1820, 5360, 7360, 13510>>,
        name |-> <<"c", "h", "i", "n", "a">>],
       [box |-> <<-1100, 7100, 4000, 18000>>, rect |-> <<650, 3710, 6810, 9740>>,
        name |-> <<"i", "n", "d", "i", "a">>],
       [box |-> <<-1100, 7100, 4000, 18000>>, rect |-> <<2350, 3710, 6090, 7780>>,
        name |-> <<"p", "a", "k", "i", "s", "t", "a", "n">>],
       [box |-> <<-1100, 7100, 4000, 18000>>, rect |-> <<2070, 2660, 8800, 9270>>,
        name |-> <<"b", "a", "n", "g", "l", "a", "d", "e", "s", "h">>],
       [box |-> <<-1100, 7100, 4000, 18000>>, rect |-> <<2420, 4550, 12300, 14580>>,
        name |-> <<"j", "a", "p", "a", "n">>],
       [box |-> <<-1100, 7100, 4000, 18000>>, rect |-> <<3310, 3860, 12460, 13190>>,
        name |-> <<"s", "o", "u", "t", "h", " ", "k", "o", "r", "e", "a">>],
       [box |-> <<-1100, 7100, 4000, 18000>>, rect |-> <<3770, 4300, 12430, 13070>>,
        name |-> <<"n", "o", "r", "t", "h", " ", "k", "o", "r", "e", "a">>],
       [box |-> <<-1100, 7100, 4000, 18000>>, rect |-> <<560, 2050, 9730, 10560>>,
        name |-> <<"t", "h", "a", "i", "l", "a", "n", "d">>],
       [box |-> <<-1100, 7100, 4000, 18000>>, rect |-> <<860, 2340, 10210, 10950>>,
        name |-> <<"v", "i", "e", "t", "n", "a", "m">>],
       [box |-> <<-1100, 7100, 4000, 18000>>, rect |-> <<-1100, 610, 9500, 14100>>,
        name |-> <<"i", "n", "d", "o", "n", "e", "s", "i", "a">>],
       [box |-> <<-1100, 7100, 4000, 18000>>, rect |-> <<460, 2110, 11690, 12660>>,
        name |-> <<"p", "h", "i", "l", "i", "p", "p", "i", "n", "e", "s">>],
       [box |-> <<-1100, 7100, 4000, 18000>>, rect |-> <<90, 740, 9960, 11930>>,
        name |-> <<"m", "a", "l", "a", "y", "s", "i", "a">>],
       [box |-> <<-1100, 7100, 4000, 18000>>, rect |-> <<120, 150, 10360, 10400>>,
        name |-> <<"s", "i", "n", "g", "a", "p", "o", "r", "e">>],
       [box |-> <<-1100, 7100, 4000, 18000>>, rect |-> <<980, 2850, 9220, 10120>>,
        name |-> <<"m", "y", "a", "n", "m", "a", "r">>],
       [box |-> <<-1100, 7100, 4000, 18000>>, rect |-> <<1050, 1470, 10230, 10760>>,
        name |-> <<"c", "a", "m", "b", "o", "d", "i", "a">>],
       [box |-> <<-1100, 7100, 4000, 18000>>, rect |-> <<1390, 2250, 10010, 10760>>,
        name |-> <<"l", "a", "o", "s">>],
       [box |-> <<-1100, 7100, 4000, 18000>>, rect |-> <<590, 980, 7970, 8190>>,
        name |-> <<"s", "r", "i", " ", "l", "a", "n", "k", "a">>],
       [box |-> <<-1100, 7100, 4000, 18000>>, rect |-> <<2640, 3040, 8010, 8820>>,
        name |-> <<"n", "e", "p", "a", "l">>],
       [box |-> <<-1100, 7100, 4000, 18000>>, rect |-> <<2670, 2830, 8870, 9210>>,
        name |-> <<"b", "h", "u", "t", "a", "n">>],
       [box |-> <<-1100, 7100, 4000, 18000>>, rect |-> <<2940, 3850, 6050, 7490>>,
        name |-> <<"a", "f", "g", "h", "a", "n", "i", "s", "t", "a", "n">>],
       [box |-> <<-1100, 7100, 4000, 18000>>, rect |-> <<2510, 3980, 4400, 6330>>,
        name |-> <<"i", "r", "a", "n">>],
       [box |-> <<-1100, 7100, 4000, 18000>>, rect |-> <<2910, 3740, 3880, 4860>>,
        name |-> <<"i", "r", "a", "q">>],
       [box |-> <<-1100, 7100, 4000, 18000>>, rect |-> <<1630, 3220, 3450, 5570>>,
        name |-> <<"s", "a", "u", "d", "i", " ", "a", "r", "a", "b", "i", "a">>],
       [box |-> <<-1100, 7100, 4000, 18000>>, rect |-> <<3580, 4210, 2600, 4500>>,
        name |-> <<"t", "u", "r", "k", "e", "y">>],
       [box |-> <<-1100, 7100, 4000, 18000>>, rect |-> <<4090, 5540, 4650, 8730>>,
        name |-> <<"k", "a", "z", "a", "k", "h", "s", "t", "a", "n">>],
       [box |-> <<-1100, 7100, 4000, 18000>>, rect |-> <<3720, 4560, 5600, 7310>>,
        name |-> <<"u", "z", "b", "e", "k", "i", "s", "t", "a", "n">>],
       [box |-> <<-1100, 7100, 4000, 18000>>, rect |-> <<4160, 5210, 8770, 11990>>,
        name |-> <<"m", "o", "n", "g", "o", "l", "i", "a">>],
       [box |-> <<-3500, 3750, -2000, 5500>>, rect |-> <<2200, 3170, 2500, 3690>>,
        name |-> <<"e", "g", "y", "p", "t">>],
       [box |-> <<-3500, 3750, -2000, 5500>>, rect |-> <<-4700, -2210, 1650, 3290>>,
        name |-> <<"s", "o", "u", "t", "h", " ", "a", "f", "r", "i", "c", "a">>],
       [box |-> <<-3500, 3750, -2000, 5500>>, rect |-> <<430, 1390, 270, 1470>>,
        name |-> <<"n", "i", "g", "e", "r", "i", "a">>],
       [box |-> <<-3500, 3750, -2000, 5500>>, rect |-> <<-470, 550, 3390, 4190>>,
        name |-> <<"k", "e", "n", "y", "a">>],
       [box |-> <<-3500, 3750, -2000, 5500>>, rect |-> <<340, 1800, 3300, 4800>>,
        name |-> <<"e", "t", "h", "i", "o", "p", "i", "a">>],
       [box |-> <<-3500, 3750, -2000, 5500>>, rect |-> <<2140, 3590, -1700, -100>>,
        name |-> <<"m", "o", "r", "o", "c", "c", "o">>],
       [box |-> <<-3500, 3750, -2000, 5500>>, rect |-> <<1890, 3710, -870, 1200>>,
        name |-> <<"a", "l", "g", "e", "r", "i", "a">>],
       [box |-> <<-3500, 3750, -2000, 5500>>, rect |-> <<1950, 3320, 930, 2520>>,
        name |-> <<"l", "i", "b", "y", "a">>],
       [box |-> <<-3500, 3750, -2000, 5500>>, rect |-> <<870, 2220, 2180, 3860>>,
        name |-> <<"s", "u", "d", "a", "n">>],
       [box |-> <<-3500, 3750, -2000, 5500>>, rect |-> <<-1170, -100, 2930, 4030>>,
        name |-> <<"t", "a", "n", "z", "a", "n", "i", "a">>],
       [box |-> <<-3500, 3750, -2000, 5500>>, rect |-> <<-150, 420, 2960, 3500>>,
        name |-> <<"u", "g", "a", "n", "d", "a">>],
       [box |-> <<-3500, 3750, -2000, 5500>>, rect |-> <<470, 1120, -330, 130>>,
        name |-> <<"g", "h", "a", "n", "a">>],
       [box |-> <<-3500, 3750, -2000, 5500>>, rect |-> <<-1800, -440, 1170, 2410>>,
        name |-> <<"a", "n", "g", "o", "l", "a">>],
       [box |-> <<-3500, 3750, -2000, 5500>>, rect |-> <<-2690, -1050, 3020, 4080>>,
        name |-> <<"m", "o", "z", "a", "m", "b", "i", "q", "u", "e">>],
       [box |-> <<-3500, 3750, -2000, 5500>>, rect |-> <<-2560, -1190, 4320, 5050>>,
        name |-> <<"m", "a", "d", "a", "g", "a", "s", "c", "a", "r">>],
       [box |-> <<-5000, 0, 11000, 18000>>, rect |-> <<-4360, -1070, 11330, 15360>>,
        name |-> <<"a", "u", "s", "t", "r", "a", "l", "i", "a">>],
       [box |-> <<-5000, 0, 11000, 18000>>, rect |-> <<-4730, -3440, 16650, 17860>>,
        name |-> <<"n", "e", "w", " ", "z", "e", "a", "l", "a", "n", "d">>],
       [box |-> <<-5000, 0, 11000, 18000>>, rect |-> <<-1200, -100, 14080, 15990>>,
        name |-> <<"p", "a", "p", "u", "a", " ", "n", "e", "w", " ", "g", "u", "i", "n", "e", "a">>],
       [box |-> <<-5000, 0, 11000, 18000>>, rect |-> <<-2070, -1600, 17700, 18000>>,
        name |-> <<"f", "i", "j", "i">>],
       [box |-> <<4120, 8190, 1960, 18000>>, rect |-> <<4120, 8190, 1960, 18000>>,
        name |-> <<"r", "u", "s", "s", "i", "a">>] >>

InRect(lat, lon, r) == lat >= r[1] /\ lat <= r[2] /\ lon >= r[3] /\ lon <= r[4]

\* the name of the first matching rule, or <<>> for null
getExpectedCountry(lat, lon0) ==
    LET lon == IF lon0 < 0 THEN lon0 + 36000 ELSE lon0
        hits == {i \in 1..Len(ExpectedCountryRules) :
                    /\ InRect(lat, lon, ExpectedCountryRules[i].box)
                    /\ InRect(lat, lon, ExpectedCountryRules[i].rect)}
    IN IF hits = {} THEN <<>>
       ELSE ExpectedCountryRules[CHOOSE i \in hits : \A j \in hits : i <= j].name

\* expectedCountry && (c.country?.toLowerCase() || '').includes(expectedCountry)
isExpectedCountry(c, expected) ==
    expected # <<>> /\ includes(toLowerCase(c.country), expected)

\* best.city.country?.toLowerCase().includes(expectedCountry); includes(null)
\* looks for the text "null"
countryIncludes(c, expected) ==
    /\ c.country # <<>>
    /\ includes(toLowerCase(c.country),
                IF expected = <<>> THEN <<"n", "u", "l", "l">> ELSE expected)

CountryOverrideKm == 300

\* the update of `best` for one city of the 2-degree stage
updateBestNear(best, c, d, expected) ==
    IF best = <<>> THEN <<[city |-> c, dist |-> d]>>
    ELSE IF isExpectedCountry(c, expected) /\ ~countryIncludes(best[1].city, expected)
         THEN IF d < best[1].dist + CountryOverrideKm * 1000
              THEN <<[city |-> c, dist |-> d]>> ELSE best
    ELSE IF ~isExpectedCountry(c, expected) /\ countryIncludes(best[1].city, expected)
         THEN best
    ELSE IF d < best[1].dist THEN <<[city |-> c, dist |-> d]>>
    ELSE best

\* the update of `best` for one city of the 5-degree stage and of the full scan
updateBestWide(best, c, d, expected) ==
    IF best = <<>> THEN <<[city |-> c, dist |-> d]>>
    ELSE IF isExpectedCountry(c, expected) /\ ~countryIncludes(best[1].city, expected)
         THEN IF d < best[1].dist + CountryOverrideKm * 1000
              THEN <<[city |-> c, dist |-> d]>> ELSE best
    ELSE IF d < best[1].dist THEN <<[city |-> c, dist |-> d]>>
    ELSE best

\* The great-circle distance of reverseGeocode, under the same restriction
\* and in the same unit as haversineKm.
haversineDistanceKm(lat1, lon1, lat2, lon2) ==
    CASE lon1 = lon2 -> (Abs(lat2 - lat1) * ArcPerCentiDegree) \div 10
      [] lon1 # lon2 /\ lat1 = 0 /\ lat2 = 0 ->
            (Min(Abs(lon2 - lon1), 36000 - Abs(lon2 - lon1)) * ArcPerCentiDegree) \div 10

RECURSIVE scanCities(_, _, _, _, _, _, _)
\* one of the three scanning loops over `list`, from position i
scanCities(best, list, i, lat, lon, expected, near) ==
    IF i > Len(list) THEN best
    ELSE LET c == list[i]
             d == haversineDistanceKm(lat, lon, c.lat, c.lon)
         IN scanCities(IF near THEN updateBestNear(best, c, d, expected)
                       ELSE updateBestWide(best, c, d, expected),
                       list, i + 1, lat, lon, expected, near)

Clamp(x, lo, hi) == IF x < lo THEN lo ELSE IF x > hi THEN hi ELSE x

\* the mutant of reverseGeocodeOn without the full scan: the two grid stages
\* decide
reverseGeocodeGridOnly(index, flat, lat0, lon0) ==
    IF lat0.k # "num" \/ lon0.k # "num" THEN <<>>
    ELSE LET lat == Clamp(lat0.v, -9000, 9000)
             lon == Clamp(lon0.v, -18000, 18000)
             expected == getExpectedCountry(lat, lon)
             near == scanCities(<<>>, citiesOfCells(index, getNeighborKeys(lat, lon, 2)),
                                1, lat, lon, expected, TRUE)
             wide == IF near # <<>> THEN near
                     ELSE scanCities(<<>>, citiesOfCells(index, getNeighborKeys(lat, lon, 5)),
                                     1, lat, lon, expected, FALSE)
         IN IF wide = <<>> THEN <<>> ELSE <<wide[1].city>>

\* a lookup that returns the first loaded city whatever the target
reverseGeocodeFirstCity(index, flat, lat0, lon0) ==
    IF flat = <<>> THEN <<>> ELSE <<flat[1]>>

\* reverseGeocode after `await ensureLoaded()`: <<>> for null, else <<city>>.
\* lat0 and lon0 are JavaScript numbers.
reverseGeocodeOn(index, flat, lat0, lon0) ==
    IF lat0.k # "num" \/ lon0.k # "num" THEN <<>>
    ELSE LET lat == Clamp(lat0.v, -9000, 9000)
             lon == Clamp(lon0.v, -18000, 18000)
             expected == getExpectedCountry(lat, lon)
             near == scanCities(<<>>, citiesOfCells(index, getNeighborKeys(lat, lon, 2)),
                                1, lat, lon, expected, TRUE)
             wide == IF near # <<>> THEN near
                     ELSE scanCities(<<>>, citiesOfCells(index, getNeighborKeys(lat, lon, 5)),
                                     1, lat, lon, expected, FALSE)
             full == IF wide = <<>> /\ Len(flat) > 0
                     THEN scanCities(<<>>, flat, 1, lat, lon, expected, FALSE)
                     ELSE wide
         IN IF full = <<>> THEN <<>> ELSE <<full[1].city>>

----------------------------------------------------------------------------
(* src/unnamed/part_004 : ensureLoaded, preloadCities, reverseGeocode,      *)
(* searchCities as asynchronous callers                                     *)

\* The call sites that may have a call pending at the same time (App's mount
\* effect, the search bar, the globe's population computation).
Callers == {"c1", "c2"}

MaxCalls == 3

NumCandidates == 3

\* candidates[i].type
candidateType(i) == IF i = 1 THEN "json" ELSE "geojson"

UnknownName == <<"U", "n", "k", "n", "o", "w", "n">>

\* A raw dataset entry under its canonical field names; lat / lon are <<>>
\* when Number(...) of the field is not finite.
Raw(name, country, lat, lon, population) ==
    [name |-> name, country |-> country, lat |-> lat, lon |-> lon,
     population |-> population]

\* the record built from one entry: name || 'Unknown', and a population that
\* is kept only when truthy
toCityRecord(d) ==
    City(IF d.name = <<>> THEN UnknownName ELSE d.name,
         d.country, d.lat[1], d.lon[1],
         IF d.population = <<>> \/ d.population[1] = 0 THEN <<>> ELSE d.population)

\* .map(...).filter(c => Number.isFinite(c.lat) && Number.isFinite(c.lon))
parseRecords(data) ==
    LET finite == SelectSeq(data, LAMBDA d : d.lat # <<>> /\ d.lon # <<>>)
    IN [i \in 1..Len(finite) |-> toCityRecord(finite[i])]

\* What a path serves: "reject" (fetch rejects), "notok" (res.ok false),
\* "bodyfail" (reading the body rejects), "garbage" (no JSON at all),
\* "wrongshape" (JSON, but neither an array nor a FeatureCollection),
\* "array", "features" (FeatureCollection) and "ndjson" (one Feature per line)
\* with the entries in data.
Serves(kind, data) == [kind |-> kind, data |-> data]

\* the mutant of afterBody: a body that cannot be parsed propagates
afterBodyUncaught(type, src) ==
    IF src.kind \in {"bodyfail", "garbage"}
    THEN [tag |-> "throw", flat |-> <<>>]
    ELSE IF src.kind = "features" \/ (type = "json" /\ src.kind = "array")
    THEN [tag |-> "break", flat |-> parseRecords(src.data)]
    ELSE [tag |-> "next", flat |-> <<>>]

\* the bound of the line loop: i < Math.min(lines.length, 50000)
MaxLines == 50000

\* JSON.parse(text) of a whole body throws: always for a body that is no
\* JSON, and for a body of one Feature per line unless it has exactly one
\* line, which is a JSON object on its own
wholeBodyParses(src) == src.kind \notin {"garbage", "ndjson"} \/ (src.kind = "ndjson" /\ Len(src.data) = 1)

\* the records of the first MaxLines lines with finite coordinates
parseLines(data) == parseRecords(SubSeq(data, 1, Min(Len(data), MaxLines)))

\* What the loop body does once the response is there and ok: assign
\* citiesFlat and break, or go to the next candidate (continue, or an
\* exception swallowed by catch {}).
afterBody(type, src) ==
    IF type = "json"
    THEN CASE src.kind = "bodyfail" -> [tag |-> "next", flat |-> <<>>]
           [] src.kind \in {"array", "features"} ->
                [tag |-> "break", flat |-> parseRecords(src.data)]
           [] src.kind = "wrongshape" -> [tag |-> "next", flat |-> <<>>]
           [] src.kind \in {"garbage", "ndjson"} ->
                IF wholeBodyParses(src)
                THEN \* one Feature: neither an array nor a FeatureCollection
                     [tag |-> "next", flat |-> <<>>]
                ELSE \* JSON.parse throws: the lines are parsed one by one
                     LET recs == IF src.kind = "ndjson" THEN parseLines(src.data) ELSE <<>>
                     IN IF Len(recs) > 0 THEN [tag |-> "break", flat |-> recs]
                        ELSE [tag |-> "next", flat |-> <<>>]
    ELSE CASE src.kind \in {"bodyfail", "garbage", "ndjson"} ->
                [tag |-> "next", flat |-> <<>>]
           [] src.kind = "features" ->
                [tag |-> "break", flat |-> parseRecords(src.data)]
           [] src.kind \in {"array", "wrongshape"} -> [tag |-> "next", flat |-> <<>>]

\* if (citiesLoaded) return;
skipLoad(loaded) == loaded

\* the mutant of loadedAfter: the flag is set whatever was loaded
loadedAlways(flat) == TRUE

\* citiesLoaded = citiesFlat.length > 0
loadedAfter(flat) == Len(flat) > 0

Void == [kind |-> "void", list |-> <<>>]

\* the value the caller's function returns once ensureLoaded has resolved
returnValue(c, index, flat) ==
    CASE c.fn = "preloadCities" -> Void
      [] c.fn = "reverseGeocode" ->
            LET r == reverseGeocodeOn(index, flat, c.lat, c.lon)
            IN [kind |-> IF r = <<>> THEN "null" ELSE "city", list |-> r]
      [] c.fn = "searchCities" ->
            [kind |-> "list", list |-> searchCitiesOn(flat, c.query, c.limit)]

\* The tail of ensureLoaded after the loop, run in the same turn that left
\* the loop: the index is rebuilt from citiesFlat and the flag is set.
FinishLoad(p, flat) ==
    /\ citiesFlat' = flat
    /\ gridIndex' = buildIndex(flat)
    /\ citiesLoaded' = loadedAfter(flat)
    /\ pc' = [pc EXCEPT ![p] = "resume"]
    /\ cand' = [cand EXCEPT ![p] = 1]

\* continue / catch {}: fetch the next candidate, or leave the loop
NextCandidate(p) ==
    IF cand[p] < NumCandidates
    THEN /\ cand' = [cand EXCEPT ![p] = cand[p] + 1]
         /\ pc' = [pc EXCEPT ![p] = "fetch"]
         /\ UNCHANGED <<citiesFlat, gridIndex, citiesLoaded>>
    ELSE FinishLoad(p, citiesFlat)

\* A caller calls preloadCities, reverseGeocode or searchCities: ensureLoaded
\* runs up to its first await, i.e. returns at once when citiesLoaded, else
\* issues the fetch of the first candidate.
Call(p, c) ==
    /\ pc[p] = "idle"
    /\ nCalls < MaxCalls
    /\ nCalls' = nCalls + 1
    /\ call' = [call EXCEPT ![p] = c]
    /\ ret' = [ret EXCEPT ![p] = <<>>]
    /\ IF skipLoad(citiesLoaded)
       THEN /\ pc' = [pc EXCEPT ![p] = "resume"]
            /\ UNCHANGED nLoads
       ELSE /\ pc' = [pc EXCEPT ![p] = "fetch"]
            /\ nLoads' = nLoads + 1
    /\ UNCHANGED <<sources, citiesLoaded, citiesFlat, gridIndex, cand>>

\* `await fetch(c.path)` settles
FetchDone(p) ==
    /\ pc[p] = "fetch"
    /\ IF sources[cand[p]].kind \in {"reject", "notok"}
       THEN NextCandidate(p)
       ELSE /\ pc' = [pc EXCEPT ![p] = "body"]
            /\ UNCHANGED <<citiesFlat, gridIndex, citiesLoaded, cand>>
    /\ UNCHANGED <<sources, call, ret, nCalls, nLoads>>

\* `await res.text()` / `await res.json()` settles
BodyDone(p) ==
    /\ pc[p] = "body"
    /\ LET out == afterBody(candidateType(cand[p]), sources[cand[p]])
       IN CASE out.tag = "break" ->
                 /\ FinishLoad(p, out.flat)
                 /\ UNCHANGED ret
            [] out.tag = "next" ->
                 /\ NextCandidate(p)
                 /\ UNCHANGED ret
            [] out.tag = "throw" ->
                 /\ pc' = [pc EXCEPT ![p] = "idle"]
                 /\ cand' = [cand EXCEPT ![p] = 1]
                 /\ ret' = [ret EXCEPT ![p] = <<[kind |-> "threw", list |-> <<>>]>>]
                 /\ UNCHANGED <<citiesFlat, gridIndex, citiesLoaded>>
    /\ UNCHANGED <<sources, call, nCalls, nLoads>>

\* the mutant of Resume: the query sorts citiesFlat itself by population
ResumeSortingInPlace(p) ==
    /\ pc[p] = "resume"
    /\ ret' = [ret EXCEPT ![p] = <<returnValue(call[p], gridIndex, citiesFlat)>>]
    /\ pc' = [pc EXCEPT ![p] = "idle"]
    /\ citiesFlat' = sortBucket(citiesFlat)
    /\ UNCHANGED <<sources, citiesLoaded, gridIndex, cand, call, nCalls, nLoads>>

\* the continuation after `await ensureLoaded()` in the called function
Resume(p) ==
    /\ pc[p] = "resume"
    /\ ret' = [ret EXCEPT ![p] = <<returnValue(call[p], gridIndex, citiesFlat)>>]
    /\ pc' = [pc EXCEPT ![p] = "idle"]
    /\ UNCHANGED <<sources, citiesLoaded, citiesFlat, gridIndex, cand, call, nCalls,
                   nLoads>>

----------------------------------------------------------------------------
(* Inputs of the loader: what the three paths serve, and the calls made *)

\* Paris and Trapar on the Greenwich meridian, an entry without finite
\* coordinates, an entry without a name whose population is 0, a city half a
\* degree south of the equator (cell -1) and one in the cell of Paris.
Dataset ==
    << Raw(<<"P", "a", "r", "i", "s">>, <<"F", "r", "a", "n", "c", "e">>, <<4886>>, <<0>>, <<2>>),
       Raw(<<"T", "r", "a", "p", "a", "r">>, <<>>, <<4100>>, <<0>>, <<5>>),
       Raw(<<"L", "e", " ", "P", "a", "r", "c">>, <<>>, <<>>, <<100>>, <<9>>),
       Raw(<<>>, <<>>, <<0>>, <<0>>, <<0>>),
       Raw(<<"S">>, <<>>, <<-50>>, <<0>>, <<3>>),
       Raw(<<"V">>, <<>>, <<4810>>, <<0>>, <<>>) >>

Reject == Serves("reject", <<>>)
NotOk == Serves("notok", <<>>)
BodyFail == Serves("bodyfail", <<>>)
Garbage == Serves("garbage", <<>>)
WrongShape == Serves("wrongshape", <<>>)

\* Environments: every source failing (two ways), the data at the first,
\* second or third candidate in each of its formats, a single Feature line
\* at the first candidate, and an empty array at the first candidate.
SourceChoices ==
    { <<Reject, NotOk, Garbage>>,
      <<Garbage, BodyFail, Reject>>,
      <<WrongShape, BodyFail, Serves("array", Dataset)>>,
      <<Serves("array", Dataset), Reject, Reject>>,
      <<Serves("features", Dataset), Reject, Reject>>,
      <<Serves("ndjson", Dataset), Reject, Reject>>,
      <<Serves("ndjson", <<Dataset[1]>>), Reject, Serves("features", Dataset)>>,
      <<NotOk, Serves("features", Dataset), Reject>>,
      <<Garbage, Serves("ndjson", Dataset), Serves("features", Dataset)>>,
      <<Serves("array", <<>>), Serves("features", Dataset), Reject>> }

CallOf(fn, query, limit, lat, lon) ==
    [fn |-> fn, query |-> query, limit |-> limit, lat |-> lat, lon |-> lon]

NoCall == CallOf("none", <<>>, 0, Num(0), Num(0))

CallChoices ==
    { CallOf("preloadCities", <<>>, 0, Num(0), Num(0)),
      CallOf("searchCities", <<"p", "a", "r">>, 2, Num(0), Num(0)),
      CallOf("reverseGeocode", <<>>, 0, Num(4800), Num(0)),
      CallOf("reverseGeocode", <<>>, 0, NaN, Num(0)),
      CallOf("reverseGeocode", <<>>, 0, Num(4800), PosInfinity) }

----------------------------------------------------------------------------
(* Inputs of reverseGeocode on a loaded dataset *)

MaxGeoCities == 3

\* Cities on the Greenwich meridian.  Seen from 48.00 N: Aranda (0.1 degree
\* north, Spain), Tarn (0.1 degree south, no country), Paris (0.86 degree,
\* France), Ulm (3.5 degrees, outside the cells 46..50 of the first stage),
\* Narvik (12 degrees, outside the cells 43..53 of the second stage).  Seen
\* from 0 N: Quito (0.3 degree), Zero (0.5 degree, country "Null Island").
GeoPool ==
    { City(<<"A">>, <<"S", "p", "a", "i", "n">>, 4810, 0, <<>>),
      City(<<"T">>, <<>>, 4790, 0, <<>>),
      City(<<"P">>, <<"F", "r", "a", "n", "c", "e">>, 4886, 0, <<>>),
      City(<<"U">>, <<"G", "e", "r", "m", "a", "n", "y">>, 5150, 0, <<>>),
      City(<<"N">>, <<"N", "o", "r", "w", "a", "y">>, 6000, 0, <<>>),
      City(<<"Q">>, <<"E", "c", "u", "a", "d", "o", "r">>, 30, 0, <<>>),
      City(<<"Z">>, <<"N", "u", "l", "l", " ", "I", "s", "l", "a", "n", "d">>, 50, 0, <<>>) }

\* the targets: 48 N 0 E (expected country "france"), 0 N 0 E (none), and
\* 95 N, which is clamped to 90 N
GeoTargets == {4800, 0, 9500}

GeoInputs ==
    [flat : SeqsUpTo(GeoPool, MaxGeoCities), lat : GeoTargets, lon : {0}]

GeoIdleIn == [flat |-> <<>>, lat |-> 0, lon |-> 0]

\* reverseGeocode(lat, lon) with citiesFlat = flat and gridIndex its index
CallReverseGeocode ==
    /\ geoOut = <<>>
    /\ geoOut' = <<returnValue(CallOf("reverseGeocode", <<>>, 0, Num(geoIn.lat), Num(geoIn.lon)),
                               buildIndex(geoIn.flat), geoIn.flat)>>
    /\ UNCHANGED geoIn

----------------------------------------------------------------------------
(* Inputs of the search functions *)

MaxItems == 3
MaxLimit == 3

\* Names for the query "par": Paris, PARMA and Para' start with it (Para' has
\* no population, PARMA a negative one), "Le  Parc" has a later word starting
\* with it, Trapar only contains it, Rome does not match.
SearchPool ==
    { City(<<"P", "a", "r", "i", "s">>, <<>>, 4886, 235, <<2>>),
      City(<<"P", "A", "R", "M", "A">>, <<>>, 4480, 1033, <<-1>>),
      City(<<"P", "a", "r", "a-acute">>, <<>>, -145, -4848, <<>>),
      City(<<"L", "e", " ", " ", "P", "a", "r", "c">>, <<>>, 4500, 100, <<1>>),
      City(<<"T", "r", "a", "p", "a", "r">>, <<>>, 4100, 100, <<5>>),
      City(<<"R", "o", "m", "e">>, <<>>, 4190, 1250, <<7>>) }

\* "par"; " Pa'r " with a full-width P, an accent and spaces around it; a
\* blank query
Queries ==
    { <<"p", "a", "r">>, <<" ", "P-fullwidth", "a-acute", "r", " ">>, <<" ">> }

SearchInputs ==
    [items : SeqsUpTo(SearchPool, MaxItems), query : Queries, limit : 0..MaxLimit]

SearchIdleIn == [items |-> <<>>, query |-> <<>>, limit |-> 0]

\* searchCities(query, limit) with the dataset already loaded: citiesFlat is
\* searchIn.items
CallSearchCities ==
    /\ searchOut = <<>>
    /\ searchOut' = <<[fn |-> "searchCities",
                       list |-> searchCitiesOn(searchIn.items, searchIn.query,
                                               searchIn.limit)]>>
    /\ UNCHANGED searchIn

CallRankAndFilterCities ==
    /\ searchOut = <<>>
    /\ searchOut' = <<[fn |-> "rankAndFilterCities",
                       list |-> rankAndFilterCities(searchIn.items, searchIn.query,
                                                    searchIn.limit)]>>
    /\ UNCHANGED searchIn

----------------------------------------------------------------------------
(* src/App.tsx, src/components/CesiumGlobe.tsx : running a simulation *)

\* the caller of the globe's `await preloadCities()` and of App's mount effect
GlobeCaller == "c1"

MountCaller == "c2"

PreloadCall == CallOf("preloadCities", <<>>, 0, Num(0), Num(0))

\* useState initial values of App: Karachi, 24.86 N 67.00 E
InitialMission == [lat |-> Num(2486), lng |-> Num(6700), result |-> <<>>]

InitialParameters ==
    [diameter_m |-> Num(200), density_kgm3 |-> Num(3000), velocity_kms |-> Num(20),
     angle_deg |-> Num(45)]

InitialUIState == [isSimulating |-> FALSE, showResults |-> FALSE]

\* The simulation effect of the globe after mounting: no animation running.
\* zones: the entities craterZone, blastZone and thermalZone are in
\* viewer.entities; trailOuter: the entity meteor-trail-outer is;
\* cleanupTimer: the 300 ms timeout that removes the meteor and its trails
\* is pending.
GlobeIdle ==
    [phase |-> "idle", res |-> <<>>, zones |-> FALSE, trailOuter |-> FALSE,
     cleanupTimer |-> FALSE]

\* A SimulationResult: the fields of simulateImpactor's result and the
\* optional population fields (<<>> when absent, <<value>> when present).
SimulationResult(r, population_affected, affectedCities, crater_total, blast_total, thermal_total) ==
    [impact_energy_j |-> r.impact_energy_j,
     impact_energy_mt |-> r.impact_energy_mt,
     crater_m |-> r.crater_m,
     crater_km |-> r.crater_km,
     blast_radius_m |-> r.blast_radius_m,
     blast_radius_km |-> r.blast_radius_km,
     thermal_radius_m |-> r.thermal_radius_m,
     thermal_radius_km |-> r.thermal_radius_km,
     seismic_magnitude |-> r.seismic_magnitude,
     latitude |-> r.latitude,
     longitude |-> r.longitude,
     population_affected |-> population_affected,
     affectedCities |-> affectedCities,
     crater_population_total |-> crater_total,
     blast_population_total |-> blast_total,
     thermal_population_total |-> thermal_total]

\* the result of simulateImpactor as App stores it
physicsResult(r) == SimulationResult(r, <<>>, <<>>, <<>>, <<>>, <<>>)

\* 10^(lg / 10^4) km in metres, for the radii of the parameter choices
MetresOfLg(lg) ==
    CASE lg = -8427 -> 144
      [] lg = -5874 -> 259
      [] lg = -5819 -> 262
      [] lg = -3656 -> 431
      [] lg = -3266 -> 471
      [] lg = -1048 -> 786
      [] lg = -529 -> 885
      [] lg = 2024 -> 1594
      [] lg = 2264 -> 1684
      [] lg = 4242 -> 2656
      [] lg = 4817 -> 3032
      [] lg = 7035 -> 5052
      [] lg = 14758 -> 29909
      [] lg = 15412 -> 34770
      [] lg = 15799 -> 38010
      [] lg = 17311 -> 53839
      [] lg = 17965 -> 62589
      [] lg = 18352 -> 68423
      [] lg = 19529 -> 89722
      [] lg = 20183 -> 104304
      [] lg = 20570 -> 114025

\* a radius in km as the aggregator's integer number of metres
radiusMetres(q) == IF q.k = "num" /\ q.s = 0 THEN 0 ELSE MetresOfLg(q.lg)

\* cities.map(c => ({geometry: {coordinates: [c.lon, c.lat]}, properties:
\* {city: c.name, country: c.country, population: c.population || 0}}));
\* the loaded coordinates are finite, so the filter keeps every feature
pointCities(cities) ==
    [i \in 1..Len(cities) |->
        [city |-> cities[i].name, country |-> cities[i].country,
         lat |-> cities[i].lat, lon |-> cities[i].lon,
         population |-> <<OrElse(cities[i].population, 0)>>]]

\* zones.cityResults.slice(0, 10)
TopCities == 10

\* the mutant of topCities: every entry of the ranked list, without the slice
topCitiesUnsliced(cityResults) ==
    [i \in 1..Len(cityResults) |->
        [name |-> cityResults[i].city,
         country |-> cityResults[i].country,
         population |-> cityResults[i].population,
         distance |-> cityResults[i].distance_km,
         zones |-> cityResults[i].zones]]

\* the entries of affectedCities: zones.cityResults.slice(0, 10).map(...).
\* country || '' leaves the text as it is (a missing country is the empty
\* sequence, as is ''), and population || 0 leaves the number of recordCity.
topCities(cityResults) ==
    [i \in 1..Min(Len(cityResults), TopCities) |->
        [name |-> cityResults[i].city,
         country |-> cityResults[i].country,
         population |-> cityResults[i].population,
         distance |-> cityResults[i].distance_km,
         zones |-> cityResults[i].zones]]

\* the result handed to onRunSimulation after `await preloadCities()`: res
\* with the population fields computed over the loaded cities
withPop(res, cities) ==
    LET zones == populationAffectedByZones(pointCities(cities), res.latitude.v,
                                           res.longitude.v,
                                           radiusMetres(res.blast_radius_km),
                                           radiusMetres(res.thermal_radius_km),
                                           radiusMetres(QScale(res.crater_km, -Log10E4(2))))
    IN SimulationResult(res, <<zones.thermalPop>>, <<topCities(zones.cityResults)>>,
                        <<zones.craterPop>>, <<zones.blastPop>>, <<zones.thermalPop>>)

\* The simulation effect of the globe for the committed props, g being the
\* globe before it runs: it returns early without a viewer, when not
\* simulating, or without a result; otherwise it adds the meteor and its two
\* trails and starts the animation for mission.result.  entities.add throws
\* on an id that is already in the collection, as meteor-trail-outer is until
\* the cleanup timeout of the previous run has fired (the effect's own
\* cleanup removes meteor and meteor-trail only); the effect then ends
\* without a preUpdate listener.
simulationEffect(viewer, isSimulating, result, g) ==
    IF ~viewer \/ ~isSimulating \/ result = <<>>
    THEN [g EXCEPT !.phase = "idle", !.res = <<>>]
    ELSE IF g.trailOuter
    THEN [g EXCEPT !.phase = "crashed", !.res = result]
    ELSE [g EXCEPT !.phase = "animating", !.res = result, !.trailOuter = TRUE]

\* the mutant of simulationStarted: the results panel stays as it was
simulationStartedKeepingResults(prev) == [prev EXCEPT !.isSimulating = TRUE]

\* setUIState(prev => ({...prev, isSimulating: true, showResults: false}))
simulationStarted(prev) == [prev EXCEPT !.isSimulating = TRUE, !.showResults = FALSE]

\* handleRunSimulation (the RUN SIMULATION button, disabled while
\* isSimulating).  The globe's preloadCities call of the run is counted
\* against MaxCalls here, which bounds the number of runs.
HandleRunSimulation ==
    /\ ~uiState.isSimulating
    /\ nCalls < MaxCalls
    /\ IF ~Truthy(mission.lat) \/ ~Truthy(mission.lng)
       THEN UNCHANGED <<uiState, mission, globe>>
       ELSE LET r == simulateImpactor([diameter_m |-> parameters.diameter_m,
                                       density_kgm3 |-> parameters.density_kgm3,
                                       velocity_kms |-> parameters.velocity_kms,
                                       angle_deg |-> parameters.angle_deg,
                                       lat |-> mission.lat, lng |-> mission.lng])
            IN IF r.threw
               THEN /\ uiState' = [isSimulating |-> FALSE, showResults |-> FALSE]
                    /\ UNCHANGED <<mission, globe>>
               ELSE /\ uiState' = simulationStarted(uiState)
                    /\ mission' = [mission EXCEPT !.result = <<physicsResult(r)>>]
                    /\ globe' = simulationEffect(viewerRef, TRUE, <<physicsResult(r)>>, globe)
    /\ UNCHANGED <<parameters, viewerRef>>

\* handleLocationSelect: a location is picked on the globe; mission.result is
\* not touched, so the simulation effect does not run again
SelectLocation(lat, lng) ==
    /\ mission' = [mission EXCEPT !.lat = lat, !.lng = lng]
    /\ UNCHANGED <<uiState, parameters, viewerRef, globe>>

\* handleSearchBarLocationSelect -> handleCitySelect: the city chosen in the
\* search bar becomes the impact location (city.lat and city.lon are the
\* numbers of the loaded record); mission.result is not touched
handleCitySelect(city) ==
    /\ mission' = [mission EXCEPT !.lat = Num(city.lat), !.lng = Num(city.lon)]
    /\ UNCHANGED <<uiState, parameters, viewerRef, globe>>

\* handleParametersChange: a slider sets the impact parameters
SetParameters(p) ==
    /\ parameters' = p
    /\ UNCHANGED <<uiState, mission, viewerRef, globe>>

\* applyHistoricalPreset: a preset button sets the parameters and, in the
\* same handler, the location of the preset; mission.result is not touched
ApplyHistoricalPreset(preset) ==
    /\ parameters' = preset.parameters
    /\ mission' = [mission EXCEPT !.lat = preset.location.lat,
                                  !.lng = preset.location.lon]
    /\ UNCHANGED <<uiState, viewerRef, globe>>

\* The preUpdate listener once elapsed >= durationMs: it removes itself, sets
\* the 300 ms timeout that removes the meteor and its trails, and adds the
\* entities craterZone, blastZone and thermalZone.  entities.add throws on an
\* id that is already in the collection, as the zones of an earlier run are
\* unless Replay removed them; the listener then ends there.  Otherwise it
\* starts the population computation, which calls preloadCities.
AnimationEnd ==
    /\ globe.phase = "animating"
    /\ IF globe.zones
       THEN /\ globe' = [globe EXCEPT !.phase = "crashed", !.cleanupTimer = TRUE]
            /\ UNCHANGED loaderVars
       ELSE /\ globe' = [globe EXCEPT !.phase = "awaiting", !.zones = TRUE,
                                      !.cleanupTimer = TRUE]
            /\ Call(GlobeCaller, PreloadCall)
    /\ UNCHANGED <<uiState, mission, parameters, viewerRef>>

\* the timeout set by the listener fires: the meteor, meteor-trail and
\* meteor-trail-outer are removed
TrailCleanup ==
    /\ globe.cleanupTimer
    /\ globe' = [globe EXCEPT !.cleanupTimer = FALSE, !.trailOuter = FALSE]
    /\ UNCHANGED <<uiState, mission, parameters, viewerRef>>

\* the Replay button: the zones, their labels, the meteor and meteor-trail
\* are removed from viewer.entities
Replay ==
    /\ viewerRef
    /\ globe' = [globe EXCEPT !.zones = FALSE]
    /\ UNCHANGED <<uiState, mission, parameters, viewerRef>>

\* the population computation resumes after `await preloadCities()` and
\* calls onRunSimulation (App's onRunSimulationFromGlobe) with the result;
\* isSimulating is then false, so the simulation effect returns early
PopulationComputed ==
    /\ globe.phase = "awaiting"
    /\ Resume(GlobeCaller)
    /\ mission' = [mission EXCEPT !.result = <<withPop(globe.res[1], citiesFlat)>>]
    /\ uiState' = [isSimulating |-> FALSE, showResults |-> TRUE]
    /\ globe' = simulationEffect(viewerRef, FALSE, mission'.result, globe)
    /\ UNCHANGED <<parameters, viewerRef>>

\* the state in which PopulationComputed can be taken: the globe's
\* `await preloadCities()` has settled and its continuation is queued
PopulationPending == globe.phase = "awaiting" /\ pc[GlobeCaller] = "resume"

\* App's `preloadCities().catch(() => {})` of the mount effect resolves
MountPreloadResolved ==
    /\ Resume(MountCaller)
    /\ UNCHANGED <<uiState, mission, parameters, viewerRef, globe>>

----------------------------------------------------------------------------
(* src/components/SearchBar.tsx : the debounced search *)

\* the defaults of the props minQueryLength and maxResults
minQueryLength == 2

maxResults == 10

\* keystrokes of one run
MaxTimers == 3

\* mounts of the SearchBar in one run: the first, and one after the section
\* 'Target Location' was collapsed and opened again
MaxMounts == 2

\* the second argument of searchCities in doSearch
SearchLimit == 50

\* The state of a mounted SearchBar: the useState and useRef initial values.
\* timers is the set of the window's timeouts that were set by onChange and
\* have neither fired nor been cleared; nextTimer is the id the next
\* setTimeout returns (ids are positive); typed is the text of the input's
\* last change event (query is also set by select).  mounted tells whether
\* CollapsibleSection renders the SearchBar, instance counts its mounts, and
\* searches[p] is the instance whose doSearch awaits the call of caller p.
SearchBarInitial ==
    [query |-> <<>>, results |-> <<>>, open |-> FALSE, selectedIndex |-> -1,
     debounceRef |-> <<>>, timers |-> {}, nextTimer |-> 1, typed |-> <<>>,
     mounted |-> TRUE, instance |-> 1, searches |-> [p \in Callers |-> 0]]

\* res.slice(0, maxResults)
sliceResults(res) == SubSeq(res, 1, Min(Len(res), maxResults))

\* !q || q.trim().length < minQueryLength
queryTooShort(q) == q = <<>> \/ Len(trim(q)) < minQueryLength

\* if (debounceRef.current) window.clearTimeout(debounceRef.current)
clearTimeout(timers, ref) == {t \in timers : <<t.id>> # ref}

\* Continuations of settled promises are microtasks: they run before the
\* next timer, input event or network response is handled.
NoContinuationQueued == \A p \in Callers : pc[p] # "resume"

\* onChange(v): a keystroke leaves v in the input
OnChange(v) ==
    /\ NoContinuationQueued
    /\ searchBar.mounted
    /\ searchBar.nextTimer <= MaxTimers
    /\ searchBar' = [searchBar EXCEPT
                        !.query = v,
                        !.typed = v,
                        !.timers = clearTimeout(@, searchBar.debounceRef)
                                     \cup {[id |-> searchBar.nextTimer, q |-> v]},
                        !.debounceRef = <<searchBar.nextTimer>>,
                        !.nextTimer = @ + 1]

\* the timeout t fires: doSearch(t.q) runs up to its return or to
\* `await searchCities(q, 50)`, which caller p makes
TimerFires(t, p) ==
    /\ NoContinuationQueued
    /\ t \in searchBar.timers
    /\ IF queryTooShort(t.q)
       THEN /\ searchBar' = [searchBar EXCEPT !.timers = @ \ {t}, !.results = <<>>,
                                              !.open = FALSE]
            /\ UNCHANGED loaderVars
       ELSE /\ Call(p, CallOf("searchCities", t.q, SearchLimit, Num(0), Num(0)))
            /\ searchBar' = [searchBar EXCEPT !.timers = @ \ {t},
                                              !.searches[p] = searchBar.instance]

\* `await searchCities(q, 50)` settles for caller p: doSearch continues with
\* setResults(res.slice(0, maxResults)); setOpen(true); setSelectedIndex(-1).
\* The setters belong to the instance that started the search: after its
\* unmount they change nothing, and they never reach a later instance.
SearchSettled(p) ==
    /\ call[p].fn = "searchCities"
    /\ Resume(p)
    /\ IF searchBar.mounted /\ searchBar.searches[p] = searchBar.instance
       THEN searchBar' = [searchBar EXCEPT !.results = sliceResults(ret'[p][1].list),
                                          !.open = TRUE, !.selectedIndex = -1]
       ELSE UNCHANGED searchBar

\* the list is rendered: open && results.length > 0
ListShown == searchBar.open /\ searchBar.results # <<>>

\* select(city): setQuery(city.name); setOpen(false); setResults([]);
\* onLocationSelected(city.name, ..., city.lat, city.lon), which App binds to
\* handleSearchBarLocationSelect.  The debounce timer is left as it is.
select(city) ==
    /\ searchBar' = [searchBar EXCEPT !.query = city.name, !.open = FALSE,
                                      !.results = <<>>]
    /\ handleCitySelect(city)
    /\ UNCHANGED loaderVars

\* a click on the i-th entry of the list (indices of the model start at 1)
ClickResult(i) ==
    /\ NoContinuationQueued
    /\ searchBar.mounted
    /\ ListShown
    /\ i \in 1..Len(searchBar.results)
    /\ select(searchBar.results[i])

\* onKeyDown, key Enter: with the list closed the first result is selected
\* if there is one; with the list shown the highlighted result, or the first
PressEnter ==
    /\ NoContinuationQueued
    /\ searchBar.mounted
    /\ searchBar.results # <<>>
    /\ IF ListShown /\ searchBar.selectedIndex >= 0
       THEN /\ searchBar.selectedIndex < Len(searchBar.results)
            /\ select(searchBar.results[searchBar.selectedIndex + 1])
       ELSE select(searchBar.results[1])

\* onKeyDown, keys ArrowDown (by = 1) and ArrowUp (by = -1), with the list
\* shown: Math.min(i + 1, results.length - 1) and Math.max(i - 1, 0)
PressArrow(by) ==
    /\ NoContinuationQueued
    /\ searchBar.mounted
    /\ ListShown
    /\ searchBar' = [searchBar EXCEPT !.selectedIndex =
                        IF by = 1 THEN Min(@ + 1, Len(searchBar.results) - 1)
                        ELSE IF @ - 1 > 0 THEN @ - 1 ELSE 0]
    /\ UNCHANGED loaderVars

\* onMouseEnter of the i-th entry of the list
HoverResult(i) ==
    /\ NoContinuationQueued
    /\ searchBar.mounted
    /\ ListShown
    /\ i \in 1..Len(searchBar.results)
    /\ searchBar' = [searchBar EXCEPT !.selectedIndex = i - 1]
    /\ UNCHANGED loaderVars

\* key Escape with the list shown, or a mousedown outside the container while
\* open: setOpen(false)
CloseList ==
    /\ NoContinuationQueued
    /\ searchBar.mounted
    /\ searchBar.open
    /\ searchBar' = [searchBar EXCEPT !.open = FALSE]
    /\ UNCHANGED loaderVars

\* onFocus: if (results.length > 0) setOpen(true)
OnFocus ==
    /\ NoContinuationQueued
    /\ searchBar.mounted
    /\ searchBar.results # <<>>
    /\ searchBar' = [searchBar EXCEPT !.open = TRUE]
    /\ UNCHANGED loaderVars

\* The section 'Target Location' is collapsed and its exit animation ends:
\* CollapsibleSection stops rendering its children, the SearchBar unmounts,
\* the cleanup of its mount effect clears the timeout in debounceRef and
\* its state is discarded.
Unmount ==
    /\ NoContinuationQueued
    /\ searchBar.mounted
    /\ searchBar' = [SearchBarInitial EXCEPT
                        !.mounted = FALSE,
                        !.instance = searchBar.instance,
                        !.searches = searchBar.searches,
                        !.nextTimer = searchBar.nextTimer,
                        !.timers = clearTimeout(searchBar.timers, searchBar.debounceRef)]
    /\ UNCHANGED loaderVars

\* The section is opened again: a new SearchBar mounts with the initial
\* values of its useState and useRef calls.
Remount ==
    /\ NoContinuationQueued
    /\ ~searchBar.mounted
    /\ searchBar.instance < MaxMounts
    /\ searchBar' = [searchBar EXCEPT !.mounted = TRUE, !.instance = @ + 1]
    /\ UNCHANGED loaderVars

\* App's `preloadCities().catch(() => {})` of the mount effect resolves
PreloadSettled(p) ==
    /\ call[p].fn = "preloadCities"
    /\ Resume(p)
    /\ UNCHANGED searchBar

\* a response or a body arrives for caller p
ResponseArrives(p) ==
    /\ NoContinuationQueued
    /\ FetchDone(p) \/ BodyDone(p)
    /\ UNCHANGED searchBar

----------------------------------------------------------------------------
(* Inputs of the search bar *)

\* what the input can hold after a keystroke: "", "p", " p ", "pa", "pari"
BarQueries ==
    { <<>>, <<"p">>, <<" ", "p", " ">>, <<"p", "a">>, <<"p", "a", "r", "i">> }

\* the dataset at the first path, at the second path, and at none
BarSourceChoices ==
    { <<Serves("array", Dataset), Reject, Reject>>,
      <<NotOk, Serves("features", Dataset), Reject>>,
      <<Reject, NotOk, Garbage>> }

----------------------------------------------------------------------------
(* Inputs of the application *)

\* Cities on the meridian of Karachi: one at the default impact point, one
\* 1.1 km north of it, one 49 km north without a population, one far away.
AppDataset ==
    << Raw(<<"K">>, <<"P", "K">>, <<2486>>, <<6700>>, <<9>>),
       Raw(<<"M">>, <<"P", "K">>, <<2487>>, <<6700>>, <<4>>),
       Raw(<<"H">>, <<>>, <<2530>>, <<6700>>, <<>>),
       Raw(<<"F">>, <<>>, <<4000>>, <<6700>>, <<7>>) >>

\* the names of the cities of AppDatasetLarge
CityLetters == <<"a", "b", "c", "d", "e", "f", "g", "h", "i", "j", "k", "l", "m", "n">>

LargeCities == 12

\* LargeCities cities north of Karachi, 1.1 km apart, of populations 1..12 in
\* an order that is not the order of the file
AppDatasetLarge ==
    [i \in 1..LargeCities |->
        Raw(<<CityLetters[i]>>, <<"P", "K">>, <<2486 + i>>, <<6700>>, <<((5 * i) % 12) + 1>>)]

\* a dataset at the first path, at the second path, and at none
AppSourceChoices ==
    { <<Serves("array", AppDatasetLarge), Reject, Reject>>,
      <<NotOk, Serves("features", AppDataset), Reject>>,
      <<Reject, NotOk, Garbage>> }

\* HISTORICAL_PRESETS: Chicxulub, Tunguska, Chelyabinsk, Sudbury, Mahuika
Preset(d, rho, v, angle, lat, lon) ==
    [parameters |-> [diameter_m |-> Num(d), density_kgm3 |-> Num(rho),
                     velocity_kms |-> Num(v), angle_deg |-> Num(angle)],
     location |-> [lat |-> Num(lat), lon |-> Num(lon)]]

HISTORICAL_PRESETS ==
    << Preset(14000, 3000, 45, 60, 2130, -8950),
       Preset(60, 3000, 15, 30, 6090, 10190),
       Preset(20, 3000, 19, 45, 5515, 6141),
       Preset(13500, 3000, 48, 45, 4660, -8110),
       Preset(500, 3000, 17, 45, -4830, 16640) >>

\* the presets whose buttons are pressed: Chicxulub and Tunguska
PresetChoices == {1, 2}

\* what the sliders are set to: the default parameters, and a diameter of 0,
\* which simulateImpactor rejects
ParameterChoices ==
    { InitialParameters,
      [diameter_m |-> Num(0), density_kgm3 |-> Num(3000), velocity_kms |-> Num(20),
       angle_deg |-> Num(45)] }

\* Karachi and a point on the equator (latitude 0)
LocationChoices == {<<Num(2486), Num(6700)>>, <<Num(0), Num(6700)>>}

----------------------------------------------------------------------------
(* Properties of populationAffectedByZones (specification AggSpec) *)

AggIdx == 1..Len(aggIn.cities)

AggDist(i) == haversineKm(aggIn.centerLat, aggIn.centerLng,
                          aggIn.cities[i].lat, aggIn.cities[i].lon)

AggPop == [i \in AggIdx |-> OrElse(aggIn.cities[i].population, 0)]

CitiesWithin(radius) == {i \in AggIdx : AggDist(i) <= radius}

ZoneRadius(z) ==
    CASE z = "crater" -> aggIn.craterRadius_km
      [] z = "blast" -> aggIn.blast_km
      [] z = "thermal" -> aggIn.thermal_km

ZoneNames == <<"crater", "blast", "thermal">>

InZone(i, z) == AggDist(i) <= ZoneRadius(z)

ExpectedZones(i) == SelectSeq(ZoneNames, LAMBDA z : InZone(i, z))

Qualifying == {i \in AggIdx : \E k \in 1..3 : InZone(i, ZoneNames[k])}

ExpectedEntry(i) ==
    [city |-> aggIn.cities[i].city, country |-> aggIn.cities[i].country,
     population |-> AggPop[i], distance_km |-> AggDist(i),
     zones |-> ExpectedZones(i)]

\* the one-to-one assignments of result positions to qualifying input cities
Assignments(n) ==
    {f \in [1..n -> Qualifying] : \A j, k \in 1..n : j # k => f[j] # f[k]}

\* C1: each zone total is the sum of the populations (a missing population
\* counting 0) of exactly the cities whose distance from the centre is <= that
\* zone's radius; every city is tested against each radius independently, so
\* a city inside several radii counts in each of those totals, whatever the
\* relative order of the three radii.
C1_ZoneTotalsInclusive ==
    aggOut # <<>> =>
        /\ aggOut[1].craterPop = SumOver(CitiesWithin(aggIn.craterRadius_km), AggPop)
        /\ aggOut[1].blastPop = SumOver(CitiesWithin(aggIn.blast_km), AggPop)
        /\ aggOut[1].thermalPop = SumOver(CitiesWithin(aggIn.thermal_km), AggPop)

\* The spec's example: cities about 10, 50 and 200 km away with populations
\* 100, 200, 300 and radii crater 20, blast 100, thermal 250 km give
\* 100 / 300 / 600.
C1_Witness ==
    /\ aggOut # <<>>
    /\ Len(aggIn.cities) = 3
    /\ aggIn.cities[1].city = "A" /\ aggIn.cities[2].city = "B"
    /\ aggIn.cities[3].city = "C"
    /\ aggIn.craterRadius_km = 20000 /\ aggIn.blast_km = 100000
    /\ aggIn.thermal_km = 250000
    /\ aggOut[1].craterPop = 100 /\ aggOut[1].blastPop = 300
    /\ aggOut[1].thermalPop = 600

PositiveWithin(radius) == {i \in CitiesWithin(radius) : AggPop[i] > 0}

\* C6: a city whose population is missing, zero or negative contributes
\* nothing: the totals are those of the positive-population cities alone and
\* every returned entry has population > 0.
C6_NonPositiveContributesNothing ==
    aggOut # <<>> =>
        /\ aggOut[1].craterPop = SumOver(PositiveWithin(aggIn.craterRadius_km), AggPop)
        /\ aggOut[1].blastPop = SumOver(PositiveWithin(aggIn.blast_km), AggPop)
        /\ aggOut[1].thermalPop = SumOver(PositiveWithin(aggIn.thermal_km), AggPop)
        /\ \A k \in 1..Len(aggOut[1].cityResults) :
                aggOut[1].cityResults[k].population > 0

\* C7: a city is in the candidate list if and only if it is within at least
\* one radius, and its entry carries its name, country, population (0 when
\* missing), distance and exactly the zones it is within, in the order
\* crater, blast, thermal.
C7_RecordedIffQualifies ==
    aggOut # <<>> =>
        LET res == aggOut[1].cityResults
        IN /\ Len(res) = Cardinality(Qualifying)
           /\ \E f \in Assignments(Len(res)) :
                  \A k \in 1..Len(res) : res[k] = ExpectedEntry(f[k])

\* One city within all three radii is recorded with all three zone names and
\* another, outside every radius, is left out.
C7_Witness ==
    /\ aggOut # <<>>
    /\ Len(aggIn.cities) = 2
    /\ Len(aggOut[1].cityResults) = 1
    /\ aggOut[1].cityResults[1].city = "A"
    /\ aggOut[1].cityResults[1].zones = <<"crater", "blast", "thermal">>
    /\ aggIn.cities[2].city = "C"

\* C8: the candidate list is a permutation of the recorded candidates,
\* ordered by population descending, and entries of equal population keep
\* the relative order of the input collection.
C8_SortedStablePermutation ==
    aggOut # <<>> =>
        LET res == aggOut[1].cityResults
        IN \E f \in Assignments(Len(res)) :
              /\ Len(res) = Cardinality(Qualifying)
              /\ \A k \in 1..Len(res) : res[k] = ExpectedEntry(f[k])
              /\ \A j, k \in 1..Len(res) :
                    j < k => /\ res[j].population >= res[k].population
                             /\ res[j].population = res[k].population => f[j] < f[k]

\* The input order A(100), G(200), B(200) comes back as G, B, A: the sort
\* moved A behind both and kept G before B.
C8_Witness ==
    /\ aggOut # <<>>
    /\ Len(aggIn.cities) = 3
    /\ aggIn.cities[1].city = "A" /\ aggIn.cities[2].city = "G"
    /\ aggIn.cities[3].city = "B"
    /\ Len(aggOut[1].cityResults) = 3
    /\ aggOut[1].cityResults[1].city = "G"
    /\ aggOut[1].cityResults[2].city = "B"
    /\ aggOut[1].cityResults[3].city = "A"

\* C20: when the collection is empty or holds no city with a positive
\* population, the three totals are 0 and the candidate list is empty.
C20_NoPositivePopulationGivesZero ==
    (/\ aggOut # <<>>
     /\ \A i \in AggIdx : AggPop[i] <= 0)
       => /\ aggOut[1].craterPop = 0
          /\ aggOut[1].blastPop = 0
          /\ aggOut[1].thermalPop = 0
          /\ aggOut[1].cityResults = <<>>

----------------------------------------------------------------------------
(* Properties of simulateImpactor's validation (specification PhysSpec) *)

Missing(x) == x = Undefined

NonFinite(x) == x.k \in {"NaN", "+Infinity", "-Infinity"}

\* C5: simulateImpactor throws, returning nothing, whenever diameter_m,
\* density_kgm3 or velocity_kms is missing, non-finite or <= 0, or angle_deg
\* is missing, non-finite or negative.
C5_InvalidInputThrows ==
    simOut # <<>> =>
        LET bad(x) == Missing(x) \/ NonFinite(x) \/ (x.k = "num" /\ x.v <= 0)
            badAngle(x) == Missing(x) \/ NonFinite(x) \/ (x.k = "num" /\ x.v < 0)
        IN (\/ bad(params.diameter_m)
            \/ bad(params.density_kgm3)
            \/ bad(params.velocity_kms)
            \/ badAngle(params.angle_deg)) => simOut[1].threw

\* the result of the call, when it returned one
SimReturned == simOut # <<>> /\ ~simOut[1].threw

SimRes == simOut[1]

\* the numbers that pass `!x`: everything but undefined, NaN and 0
Accepted(p) == ~invalidParameters(p)

\* C11: for every accepted input crater_km <= 12000, crater_km <= 200 when
\* diameter_m <= 15000, and crater_m is 1000 times crater_km.
C11_CraterCaps ==
    SimReturned =>
        /\ QLe(SimRes.crater_km, QNum(1, Log10E4(12000)))
        /\ QLe(toQ(params.diameter_m), QNum(1, Log10E4(15000)))
              => QLe(SimRes.crater_km, QNum(1, Log10E4(200)))
        /\ SimRes.crater_m = QScale(SimRes.crater_km, Log10E4(1000))

\* C12: blast_radius_km = min(3.0 * crater_km / 2, 6371) and
\* thermal_radius_km = min(1.8 * crater_km / 2, 6371) for the returned
\* crater_km, neither is greater than 6371, and the _m fields are 1000 times
\* the _km fields.
C12_RadiiFromCraterRadius ==
    SimReturned =>
        LET craterRadius == QScale(SimRes.crater_km, -Log10E4(2))
            earth == QNum(1, Log10E4(6371))
        IN /\ SimRes.blast_radius_km = QMin(QScale(craterRadius, Log10E4(3)), earth)
           /\ SimRes.thermal_radius_km =
                 QMin(QScale(craterRadius, Log10E4(18) - Log10E4(10)), earth)
           /\ ~QGt(SimRes.blast_radius_km, earth)
           /\ ~QGt(SimRes.thermal_radius_km, earth)
           /\ SimRes.blast_radius_m = QScale(SimRes.blast_radius_km, Log10E4(1000))
           /\ SimRes.thermal_radius_m = QScale(SimRes.thermal_radius_km, Log10E4(1000))

\* a crater of 20000 m impactor below the crater cap whose blast radius is cut
\* to 6371 km while its thermal radius (0.9 crater diameters) is not
C12_Witness ==
    /\ SimReturned
    /\ SimRes.crater_km.k = "num"
    /\ QLt(SimRes.crater_km, QNum(1, Log10E4(12000)))
    /\ SimRes.blast_radius_km = QNum(1, Log10E4(6371))
    /\ QLt(SimRes.thermal_radius_km, QNum(1, Log10E4(6371)))
    /\ QGt(SimRes.thermal_radius_km, QZero)

\* the angles between 0 and 90 degrees, where a greater angle is a steeper one
Steepness == {Num(15), Num(45), Num(90)}

\* C13: two accepted records that differ only in angle_deg give the same
\* impact_energy_j, impact_energy_mt and seismic_magnitude, and the crater of
\* the steeper angle is >= the crater of the shallower one.
C13_AngleIndependentEnergy ==
    SimReturned =>
        \A a \in {NaN, PosInfinity, Num(-5), Num(0), Num(15), Num(45), Num(90)} :
            LET q == [params EXCEPT !.angle_deg = a]
                other == simulateImpactor(q)
            IN Accepted(q) =>
                 /\ other.impact_energy_j = SimRes.impact_energy_j
                 /\ other.impact_energy_mt = SimRes.impact_energy_mt
                 /\ other.seismic_magnitude = SimRes.seismic_magnitude
                 /\ (/\ a \in Steepness
                     /\ params.angle_deg \in Steepness
                     /\ a.v <= params.angle_deg.v)
                       => QLe(other.crater_m, SimRes.crater_m)

\* C14: with positive finite diameter, density and velocity and coordinates
\* supplied, angle_deg = 0 is accepted: the call returns a result.
C14_GrazingAngleAccepted ==
    LET positive(x) == x.k = "num" /\ x.v > 0
    IN (/\ simOut # <<>>
        /\ positive(params.diameter_m)
        /\ positive(params.density_kgm3)
        /\ positive(params.velocity_kms)
        /\ params.angle_deg = Num(0)
        /\ params.lat # Undefined /\ params.lng # Undefined) => ~simOut[1].threw

\* C15: a call with valid diameter_m, density_kgm3, velocity_kms and angle_deg
\* but without lat / lng returns a result with positive energy, crater,
\* blast, thermal and seismic fields.
C15_CoordinatesOptional ==
    LET positive(x) == x.k = "num" /\ x.v > 0
    IN (/\ simOut # <<>>
        /\ positive(params.diameter_m)
        /\ positive(params.density_kgm3)
        /\ positive(params.velocity_kms)
        /\ positive(params.angle_deg)
        /\ params.lat = Undefined /\ params.lng = Undefined)
          => /\ ~simOut[1].threw
             /\ QGt(SimRes.impact_energy_j, QZero)
             /\ QGt(SimRes.crater_m, QZero)
             /\ QGt(SimRes.blast_radius_m, QZero)
             /\ QGt(SimRes.thermal_radius_m, QZero)
             /\ SimRes.seismic_magnitude.k = "num" /\ SimRes.seismic_magnitude.v > 0

\* C16: seismicMagnitudeEstimate returns a magnitude in [0, 12] for every
\* energy, also below 1 J, and a larger energy never gets a smaller
\* magnitude; the seismic_magnitude of every simulateImpactor result is in
\* [0, 12].  (Magnitudes are in units of 10^-4.)
InMagnitudeRange(m) == m.k = "num" /\ MinMagnitude.v <= m.v /\ m.v <= MaxMagnitude.v

C16_SeismicMagnitudeBounded ==
    /\ seisOut # <<>> =>
          /\ InMagnitudeRange(seisOut[1])
          /\ InMagnitudeRange(seisOut[2])
          /\ QLe(seisIn[1], seisIn[2]) => seisOut[1].v <= seisOut[2].v
    /\ SimReturned => InMagnitudeRange(SimRes.seismic_magnitude)

\* an energy below 1 J gets magnitude 0, one beyond 10^26.67 J gets 12, and
\* the estimate was computed
C16_Witness ==
    /\ seisOut # <<>>
    /\ seisIn[1] = QNum(1, -5000) /\ seisOut[1] = MinMagnitude
    /\ seisIn[2] = QNum(1, 300000) /\ seisOut[2] = MaxMagnitude

\* a positive finite number
PositiveFinite(x) == x.k = "pow10" \/ (x.k = "num" /\ x.v > 0)

\* positive finite diameter, density and velocity and an angle in [0, 90]
ValidParameters(p) ==
    /\ PositiveFinite(p.diameter_m)
    /\ PositiveFinite(p.density_kgm3)
    /\ PositiveFinite(p.velocity_kms)
    /\ p.angle_deg.k = "num" /\ p.angle_deg.v >= 0 /\ p.angle_deg.v <= 90

\* the diameters compared: 100 m, 15 km, 20 km, 10000 km, 1e-120 m, 1e120 m
\* and 1e121 m
Diameters ==
    {Num(100), Num(15000), Num(20000), Num(10000000), Pow10(-120), Pow10(120), Pow10(121)}

\* C21: with density, velocity and angle fixed at valid values, a strictly
\* larger diameter_m gives a strictly larger impact_energy_j and a strictly
\* larger mass, and impact_energy_mt is impact_energy_j / 4.184e15.
C21_EnergyStrictlyIncreasing ==
    (SimReturned /\ ValidParameters(params)) =>
        /\ \A d \in Diameters :
              QLt(toQ(params.diameter_m), toQ(d)) =>
                 /\ QLt(SimRes.impact_energy_j,
                        simulateImpactor([params EXCEPT !.diameter_m = d]).impact_energy_j)
                 /\ QLt(massFromDiameter(toQ(params.diameter_m), toQ(params.density_kgm3)),
                        massFromDiameter(toQ(d), toQ(params.density_kgm3)))
        /\ SimRes.impact_energy_mt =
              QScale(SimRes.impact_energy_j, -(Log10E4(4184) + 12 * Log10E4(10)))

\* a quantity that is a finite number >= 0
FiniteNonNegative(q) == q.k = "num" /\ q.s >= 0

\* C22: for positive finite diameter_m, density_kgm3 and velocity_kms and
\* angle_deg in [0, 90], every numeric field of the result is finite and
\* non-negative.
C22_AllFieldsFinite ==
    (SimReturned /\ ValidParameters(params)) =>
        /\ FiniteNonNegative(SimRes.impact_energy_j)
        /\ FiniteNonNegative(SimRes.impact_energy_mt)
        /\ FiniteNonNegative(SimRes.crater_m)
        /\ FiniteNonNegative(SimRes.crater_km)
        /\ FiniteNonNegative(SimRes.blast_radius_m)
        /\ FiniteNonNegative(SimRes.blast_radius_km)
        /\ FiniteNonNegative(SimRes.thermal_radius_m)
        /\ FiniteNonNegative(SimRes.thermal_radius_km)
        /\ SimRes.seismic_magnitude.k = "num" /\ SimRes.seismic_magnitude.v >= 0

\* C27: in every returned result crater_km / 2 <= thermal_radius_km <=
\* blast_radius_km.
C27_NestedRadii ==
    SimReturned =>
        /\ QLe(QScale(SimRes.crater_km, -Log10E4(2)), SimRes.thermal_radius_km)
        /\ QLe(SimRes.thermal_radius_km, SimRes.blast_radius_km)

\* the same for the results of valid parameters
NestedRadiiOfValid == ValidParameters(params) => C27_NestedRadii

----------------------------------------------------------------------------
(* Properties of searchCities / rankAndFilterCities (specification          *)
(* SearchSpec)                                                              *)

SearchRes == searchOut[1].list

\* the query and the names as the called function normalises them
SearchQ ==
    IF searchOut[1].fn = "searchCities" THEN normalizeQuery(searchIn.query)
    ELSE normalizeString(trim(searchIn.query))

SearchName(c) ==
    IF searchOut[1].fn = "searchCities" THEN normalizeName(c.name)
    ELSE normalizeString(c.name)

NameStartsWithQuery(c) == startsWith(SearchName(c), SearchQ)

\* the query stands right after a whitespace character of the name
LaterWordStartsWithQuery(c) ==
    \E i \in 1..Len(SearchName(c)) :
        /\ IsSpace(SearchName(c)[i])
        /\ startsWith(SubSeq(SearchName(c), i + 1, Len(SearchName(c))), SearchQ)

NameContainsQuery(c) == includes(SearchName(c), SearchQ)

\* 1 prefix, 2 word start only, 3 substring only, 4 no match
MatchClass(c) ==
    IF NameStartsWithQuery(c) THEN 1
    ELSE IF LaterWordStartsWithQuery(c) THEN 2
    ELSE IF NameContainsQuery(c) THEN 3
    ELSE 4

\* C9: in the result every prefix match precedes every word-start-only
\* match, which precedes every substring-only match, whatever the
\* populations; a city matching none of the three is absent.
C9_BucketPriority ==
    (searchOut # <<>> /\ SearchQ # <<>>) =>
        /\ \A k \in 1..Len(SearchRes) : MatchClass(SearchRes[k]) <= 3
        /\ \A j, k \in 1..Len(SearchRes) :
              j < k => MatchClass(SearchRes[j]) <= MatchClass(SearchRes[k])

\* Trapar (population 5, substring) was listed before Paris (population 2,
\* prefix) and comes back after it.
C9_Witness ==
    /\ searchOut # <<>>
    /\ Len(searchIn.items) >= 2
    /\ searchIn.items[1].name = <<"T", "r", "a", "p", "a", "r">>
    /\ searchIn.items[2].name = <<"P", "a", "r", "i", "s">>
    /\ Len(SearchRes) = 2
    /\ SearchRes[1].name = <<"P", "a", "r", "i", "s">>
    /\ SearchRes[2].name = <<"T", "r", "a", "p", "a", "r">>

\* The ranking of the result: it has min(limit, matches) entries, they are
\* the best of the matching cities by (bucket, population || 0 descending),
\* and within a bucket they are in this order.  After an unpopulated city
\* of the same bucket come, with unpopulatedLast, only unpopulated cities,
\* and without it only cities whose population || 0 is at most 0.
RankedAndTruncated(unpopulatedLast) ==
    (searchOut # <<>> /\ SearchQ # <<>>) =>
        LET items == searchIn.items
            res == SearchRes
            n == Len(res)
            cls == [i \in 1..Len(items) |-> MatchClass(items[i])]
            pop == [i \in 1..Len(items) |-> popOrZero(items[i])]
            matching == {i \in 1..Len(items) : cls[i] <= 3}
            \* the one-to-one assignments of result positions to matching cities
            assignments ==
                {f \in [1..n -> matching] : \A j, k \in 1..n : j # k => f[j] # f[k]}
        IN /\ n <= searchIn.limit
           /\ n = Min(searchIn.limit, Cardinality(matching))
           /\ \E f \in assignments :
                 /\ \A k \in 1..n : res[k] = items[f[k]]
                 /\ \A j, k \in 1..n :
                       (j < k /\ cls[f[j]] = cls[f[k]]) =>
                           /\ pop[f[j]] >= pop[f[k]]
                           /\ res[j].population = <<>> =>
                                 IF unpopulatedLast THEN res[k].population = <<>>
                                 ELSE pop[f[k]] <= 0
                 /\ \A i \in matching :
                       (\A k \in 1..n : f[k] # i) =>
                           \A k \in 1..n :
                               \/ cls[i] > cls[f[k]]
                               \/ cls[i] = cls[f[k]] /\ pop[i] <= pop[f[k]]

\* C10 as stated: within a bucket the cities are ordered by population
\* descending, a missing population counting 0, so that unpopulated cities
\* come last in their bucket; the list is the first `limit` entries of
\* prefix ++ wordStart ++ substring, so it is never longer than the limit.
C10_UnpopulatedLast == RankedAndTruncated(TRUE)

\* C10 as amended: within a bucket the cities are ordered by population
\* descending, a missing population counting 0, so that an unpopulated city
\* comes after every city of positive population of its bucket and is
\* followed only by unpopulated cities and cities of negative population;
\* the list is the first `limit` entries of prefix ++ wordStart ++ substring.
C10_PopulationOrderAndLimit == RankedAndTruncated(FALSE)

\* PARMA (-1), Para' (no population) and Paris (2), all prefix matches, with
\* limit 3: Paris, Para', PARMA; the unpopulated city comes after the
\* populated one and before the one of negative population.
C10_Witness ==
    /\ searchOut # <<>>
    /\ SearchQ # <<>>
    /\ Len(searchIn.items) = 3
    /\ searchIn.items[1].population = <<-1>>
    /\ searchIn.items[2].population = <<>>
    /\ searchIn.items[3].population = <<2>>
    /\ \A i \in 1..3 : MatchClass(searchIn.items[i]) = 1
    /\ Len(SearchRes) = 3
    /\ SearchRes[1].population = <<2>>
    /\ SearchRes[2].population = <<>>
    /\ SearchRes[3].population = <<-1>>

----------------------------------------------------------------------------
(* Properties of reverseGeocode on a loaded dataset (specification GeoSpec) *)

\* the target after Math.max(-90, Math.min(90, lat)) and the same for lon
GeoLat == Clamp(geoIn.lat, -9000, 9000)

GeoLon == Clamp(geoIn.lon, -18000, 18000)

GeoDist(c) == haversineDistanceKm(GeoLat, GeoLon, c.lat, c.lon)

\* c lies in one of the grid cells from floor(target - r) to floor(target + r)
InNeighbourhood(c, r) ==
    /\ (GeoLat - 100 * r) \div 100 <= c.lat \div 100
    /\ c.lat \div 100 <= (GeoLat + 100 * r) \div 100
    /\ (GeoLon - 100 * r) \div 100 <= c.lon \div 100
    /\ c.lon \div 100 <= (GeoLon + 100 * r) \div 100

StageCities(r) == {c \in Range(geoIn.flat) : InNeighbourhood(c, r)}

\* the cities scanned by the stage that produces the result: the 2-degree
\* cells, the 5-degree cells only if those hold no city, every loaded city
\* only if those hold none either
ProducingStage ==
    IF StageCities(2) # {} THEN StageCities(2)
    ELSE IF StageCities(5) # {} THEN StageCities(5)
    ELSE Range(geoIn.flat)

\* the result is null exactly when the producing stage scans no city, and is
\* otherwise one of the cities it scans
FromProducingStage ==
    IF ProducingStage = {} THEN geoOut[1].kind = "null"
    ELSE geoOut[1].kind = "city" /\ geoOut[1].list[1] \in ProducingStage

NearestOfProducingStage ==
    \A c \in ProducingStage : GeoDist(geoOut[1].list[1]) <= GeoDist(c)

\* no city of the producing stage has a country containing the country
\* expected at the target (the text "null" when none is expected)
NoCountryMatch ==
    \A c \in ProducingStage : ~countryIncludes(c, getExpectedCountry(GeoLat, GeoLon))

\* no country is expected at the target: getExpectedCountry returns null
NoCountryExpected == getExpectedCountry(GeoLat, GeoLon) = <<>>

\* C17: reverseGeocode searches the 2-degree cells, then the 5-degree cells
\* if those gave no city, then all loaded cities if those gave none, and
\* returns the city at minimum haversine distance from the clamped target
\* among the cities scanned in the stage that produced the result.
C17_NearestInProducingStage ==
    geoOut # <<>> =>
        /\ FromProducingStage
        /\ ProducingStage # {} => NearestOfProducingStage

\* C17 at the targets for which no country is expected, where the
\* country-affinity heuristic has nothing to prefer: the result is the
\* nearest city of the stage that produced it.
C17_NearestWhereNoCountryExpected ==
    (geoOut # <<>> /\ NoCountryExpected) =>
        /\ FromProducingStage
        /\ ProducingStage # {} => NearestOfProducingStage

\* What holds instead: the result comes from the producing stage, and it is
\* at minimum distance among that stage's cities whenever none of them has a
\* country for which the test of the code succeeds (containing the expected
\* country, or the text "null" when none is expected).
NearestUnlessCountryPreferred ==
    geoOut # <<>> =>
        /\ FromProducingStage
        /\ (ProducingStage # {} /\ NoCountryMatch) => NearestOfProducingStage

\* C26: with at least one city loaded, reverseGeocode of finite coordinates
\* returns a city (never null), also when the cells of both grid stages hold
\* no city and the full scan decides.
C26_NonNullWhenLoaded ==
    (geoOut # <<>> /\ geoIn.flat # <<>>) =>
        /\ geoOut[1].kind = "city"
        /\ Len(geoOut[1].list) = 1
        /\ geoOut[1].list[1] \in Range(geoIn.flat)

\* only Narvik (60 N) is loaded: seen from 48 N the cells 46..50 and 43..53
\* hold no city, and the full scan returns Narvik
C26_Witness ==
    /\ geoOut # <<>>
    /\ geoIn.lat = 4800
    /\ Len(geoIn.flat) = 1 /\ geoIn.flat[1].name = <<"N">>
    /\ StageCities(2) = {} /\ StageCities(5) = {}
    /\ geoOut[1].kind = "city" /\ geoOut[1].list[1].name = <<"N">>

----------------------------------------------------------------------------
(* Specifications *)

vars == <<aggIn, aggOut, params, simOut, seisIn, seisOut, searchIn,
          searchOut, geoIn, geoOut, sources, citiesLoaded, citiesFlat,
          gridIndex, pc, cand, call, ret, nCalls, nLoads, uiState, mission,
          parameters, viewerRef, globe, searchBar>>

\* the module state before any call: nothing loaded, no call pending
LoaderIdle(src) ==
    /\ sources = src
    /\ citiesLoaded = FALSE
    /\ citiesFlat = <<>>
    /\ gridIndex = EmptyIndex
    /\ pc = [p \in Callers |-> "idle"]
    /\ cand = [p \in Callers |-> 1]
    /\ call = [p \in Callers |-> NoCall]
    /\ ret = [p \in Callers |-> <<>>]
    /\ nCalls = 0
    /\ nLoads = 0

NoSources == <<Reject, Reject, Reject>>

\* populationAffectedByZones called once on any of the inputs
AggInit ==
    /\ aggIn \in AggInputs
    /\ aggOut = <<>>
    /\ params = PhysIdleParams
    /\ simOut = <<>>
    /\ seisIn = SeisIdleIn
    /\ seisOut = <<>>
    /\ searchIn = SearchIdleIn
    /\ searchOut = <<>>
    /\ geoIn = GeoIdleIn
    /\ geoOut = <<>>
    /\ uiState = InitialUIState
    /\ mission = InitialMission
    /\ parameters = InitialParameters
    /\ viewerRef = FALSE
    /\ globe = GlobeIdle
    /\ searchBar = SearchBarInitial
    /\ LoaderIdle(NoSources)

AggNext == CallAggregator /\ UNCHANGED <<physVars, seisVars, searchVars, geoVars, loaderVars, appVars, barVars>>

AggSpec == AggInit /\ [][AggNext]_vars

\* simulateImpactor and seismicMagnitudeEstimate, each called once; the inputs
\* of one of them are drawn, the other is called on its idle input
PhysInit ==
    /\ \/ params \in PhysInputs /\ seisIn = SeisIdleIn
       \/ params = PhysIdleParams /\ seisIn \in SeisInputs
    /\ simOut = <<>>
    /\ seisOut = <<>>
    /\ aggIn = AggIdleIn
    /\ aggOut = <<>>
    /\ searchIn = SearchIdleIn
    /\ searchOut = <<>>
    /\ geoIn = GeoIdleIn
    /\ geoOut = <<>>
    /\ uiState = InitialUIState
    /\ mission = InitialMission
    /\ parameters = InitialParameters
    /\ viewerRef = FALSE
    /\ globe = GlobeIdle
    /\ searchBar = SearchBarInitial
    /\ LoaderIdle(NoSources)

SimulateStep ==
    /\ CallSimulateImpactor
    /\ UNCHANGED <<aggVars, seisVars, searchVars, geoVars, loaderVars, appVars, barVars>>

SeismicStep ==
    /\ CallSeismicMagnitudeEstimate
    /\ UNCHANGED <<aggVars, physVars, searchVars, geoVars, loaderVars, appVars, barVars>>

PhysNext == SimulateStep \/ SeismicStep

PhysSpec == PhysInit /\ [][PhysNext]_vars

SearchInit ==
    /\ searchIn \in SearchInputs
    /\ searchOut = <<>>
    /\ aggIn = AggIdleIn
    /\ aggOut = <<>>
    /\ params = PhysIdleParams
    /\ simOut = <<>>
    /\ seisIn = SeisIdleIn
    /\ seisOut = <<>>
    /\ geoIn = GeoIdleIn
    /\ geoOut = <<>>
    /\ uiState = InitialUIState
    /\ mission = InitialMission
    /\ parameters = InitialParameters
    /\ viewerRef = FALSE
    /\ globe = GlobeIdle
    /\ searchBar = SearchBarInitial
    /\ LoaderIdle(NoSources)

SearchCitiesStep == CallSearchCities /\ UNCHANGED <<aggVars, physVars, seisVars, geoVars, loaderVars, appVars, barVars>>

RankAndFilterStep ==
    CallRankAndFilterCities /\ UNCHANGED <<aggVars, physVars, seisVars, geoVars, loaderVars, appVars, barVars>>

SearchNext == SearchCitiesStep \/ RankAndFilterStep

SearchSpec == SearchInit /\ [][SearchNext]_vars

\* reverseGeocode called once on any loaded dataset and target
GeoInit ==
    /\ geoIn \in GeoInputs
    /\ geoOut = <<>>
    /\ aggIn = AggIdleIn
    /\ aggOut = <<>>
    /\ params = PhysIdleParams
    /\ simOut = <<>>
    /\ seisIn = SeisIdleIn
    /\ seisOut = <<>>
    /\ searchIn = SearchIdleIn
    /\ searchOut = <<>>
    /\ uiState = InitialUIState
    /\ mission = InitialMission
    /\ parameters = InitialParameters
    /\ viewerRef = FALSE
    /\ globe = GlobeIdle
    /\ searchBar = SearchBarInitial
    /\ LoaderIdle(NoSources)

GeoNext == CallReverseGeocode /\ UNCHANGED <<aggVars, physVars, seisVars, searchVars, loaderVars, appVars, barVars>>

GeoSpec == GeoInit /\ [][GeoNext]_vars

\* The loader with overlapping calls: a caller may call while another
\* caller's call is pending.
Init ==
    /\ aggIn = AggIdleIn
    /\ aggOut = <<>>
    /\ params = PhysIdleParams
    /\ simOut = <<>>
    /\ seisIn = SeisIdleIn
    /\ seisOut = <<>>
    /\ searchIn = SearchIdleIn
    /\ searchOut = <<>>
    /\ geoIn = GeoIdleIn
    /\ geoOut = <<>>
    /\ uiState = InitialUIState
    /\ mission = InitialMission
    /\ parameters = InitialParameters
    /\ viewerRef = FALSE
    /\ globe = GlobeIdle
    /\ searchBar = SearchBarInitial
    /\ \E src \in SourceChoices : LoaderIdle(src)

CallStep ==
    /\ \E p \in Callers, c \in CallChoices : Call(p, c)
    /\ UNCHANGED <<aggVars, physVars, seisVars, searchVars, geoVars, appVars, barVars>>

FetchStep ==
    /\ \E p \in Callers : FetchDone(p)
    /\ UNCHANGED <<aggVars, physVars, seisVars, searchVars, geoVars, appVars, barVars>>

BodyStep ==
    /\ \E p \in Callers : BodyDone(p)
    /\ UNCHANGED <<aggVars, physVars, seisVars, searchVars, geoVars, appVars, barVars>>

ResumeStep ==
    /\ \E p \in Callers : Resume(p)
    /\ UNCHANGED <<aggVars, physVars, seisVars, searchVars, geoVars, appVars, barVars>>

Next == CallStep \/ FetchStep \/ BodyStep \/ ResumeStep

Spec == Init /\ [][Next]_vars

\* The loader with non-overlapping calls: a call is made only when no call
\* is pending.
SeqCallStep ==
    /\ \A q \in Callers : pc[q] = "idle"
    /\ \E p \in Callers, c \in CallChoices : Call(p, c)
    /\ UNCHANGED <<aggVars, physVars, seisVars, searchVars, geoVars, appVars, barVars>>

SeqNext == SeqCallStep \/ FetchStep \/ BodyStep \/ ResumeStep

SeqSpec == Init /\ [][SeqNext]_vars

\* the module state once App has mounted: the mount effect has called
\* preloadCities, which is fetching the first candidate
LoaderMounted(src) ==
    /\ sources = src
    /\ citiesLoaded = FALSE
    /\ citiesFlat = <<>>
    /\ gridIndex = EmptyIndex
    /\ pc = [p \in Callers |-> IF p = MountCaller THEN "fetch" ELSE "idle"]
    /\ cand = [p \in Callers |-> 1]
    /\ call = [p \in Callers |-> IF p = MountCaller THEN PreloadCall ELSE NoCall]
    /\ ret = [p \in Callers |-> <<>>]
    /\ nCalls = 1
    /\ nLoads = 1

\* The application after mounting.  The globe's first effect has either
\* created the Cesium viewer or caught the failure of its construction
\* ("Cesium init failed"), which leaves viewerRef.current null.
AppInit ==
    /\ uiState = InitialUIState
    /\ mission = InitialMission
    /\ parameters = InitialParameters
    /\ viewerRef \in BOOLEAN
    /\ globe = GlobeIdle
    /\ aggIn = AggIdleIn
    /\ aggOut = <<>>
    /\ params = PhysIdleParams
    /\ simOut = <<>>
    /\ seisIn = SeisIdleIn
    /\ seisOut = <<>>
    /\ searchIn = SearchIdleIn
    /\ searchOut = <<>>
    /\ geoIn = GeoIdleIn
    /\ geoOut = <<>>
    /\ searchBar = SearchBarInitial
    /\ \E src \in AppSourceChoices : LoaderMounted(src)

RunSimulationStep ==
    /\ HandleRunSimulation
    /\ UNCHANGED <<aggVars, physVars, seisVars, searchVars, geoVars, barVars, loaderVars>>

SelectLocationStep ==
    /\ \E l \in LocationChoices : SelectLocation(l[1], l[2])
    /\ UNCHANGED <<aggVars, physVars, seisVars, searchVars, geoVars, barVars, loaderVars>>

SetParametersStep ==
    /\ \E p \in ParameterChoices : SetParameters(p)
    /\ UNCHANGED <<aggVars, physVars, seisVars, searchVars, geoVars, barVars, loaderVars>>

ApplyHistoricalPresetStep ==
    /\ \E i \in PresetChoices : ApplyHistoricalPreset(HISTORICAL_PRESETS[i])
    /\ UNCHANGED <<aggVars, physVars, seisVars, searchVars, geoVars, barVars, loaderVars>>

AnimationEndStep ==
    /\ AnimationEnd
    /\ UNCHANGED <<aggVars, physVars, seisVars, searchVars, geoVars, barVars>>

TrailCleanupStep ==
    /\ TrailCleanup
    /\ UNCHANGED <<aggVars, physVars, seisVars, searchVars, geoVars, barVars, loaderVars>>

ReplayStep ==
    /\ Replay
    /\ UNCHANGED <<aggVars, physVars, seisVars, searchVars, geoVars, barVars, loaderVars>>

PopulationComputedStep ==
    /\ PopulationComputed
    /\ UNCHANGED <<aggVars, physVars, seisVars, searchVars, geoVars, barVars>>

MountPreloadResolvedStep ==
    /\ MountPreloadResolved
    /\ UNCHANGED <<aggVars, physVars, seisVars, searchVars, geoVars, barVars>>

AppNext ==
    \/ RunSimulationStep
    \/ SelectLocationStep
    \/ SetParametersStep
    \/ ApplyHistoricalPresetStep
    \/ TrailCleanupStep
    \/ ReplayStep
    \/ AnimationEndStep
    \/ FetchStep
    \/ BodyStep
    \/ PopulationComputedStep
    \/ MountPreloadResolvedStep

\* The user may stop clicking; the browser keeps delivering animation frames
\* and settled promises and fires the timeouts, so the steps of the globe and
\* of the loader are taken once they are enabled.  The last conjunct is weak fairness of
\* PopulationComputedStep, written with the state predicate
\* PopulationPending, which holds exactly when that step is enabled.
AppSpec ==
    /\ AppInit
    /\ [][AppNext]_vars
    /\ WF_vars(AnimationEndStep)
    /\ WF_vars(TrailCleanupStep)
    /\ WF_vars(FetchStep)
    /\ WF_vars(BodyStep)
    /\ WF_vars(MountPreloadResolvedStep)
    /\ ([]<>~PopulationPending \/ []<><<PopulationComputedStep>>_vars)

\* The search bar of the mounted application: nothing typed yet, the mount
\* effect's preloadCities fetching the first candidate.
BarInit ==
    /\ searchBar = SearchBarInitial
    /\ aggIn = AggIdleIn
    /\ aggOut = <<>>
    /\ params = PhysIdleParams
    /\ simOut = <<>>
    /\ seisIn = SeisIdleIn
    /\ seisOut = <<>>
    /\ searchIn = SearchIdleIn
    /\ searchOut = <<>>
    /\ geoIn = GeoIdleIn
    /\ geoOut = <<>>
    /\ uiState = InitialUIState
    /\ mission = InitialMission
    /\ parameters = InitialParameters
    /\ viewerRef = FALSE
    /\ globe = GlobeIdle
    /\ \E src \in BarSourceChoices : LoaderMounted(src)

OnChangeStep ==
    /\ \E v \in BarQueries : OnChange(v)
    /\ UNCHANGED <<aggVars, physVars, seisVars, searchVars, geoVars, appVars, loaderVars>>

TimerFiresStep ==
    /\ \E t \in searchBar.timers, p \in Callers : TimerFires(t, p)
    /\ UNCHANGED <<aggVars, physVars, seisVars, searchVars, geoVars, appVars>>

ClickResultStep ==
    /\ \E i \in 1..maxResults : ClickResult(i)
    /\ UNCHANGED <<aggVars, physVars, seisVars, searchVars, geoVars>>

PressEnterStep ==
    /\ PressEnter
    /\ UNCHANGED <<aggVars, physVars, seisVars, searchVars, geoVars>>

PressArrowStep ==
    /\ \E by \in {-1, 1} : PressArrow(by)
    /\ UNCHANGED <<aggVars, physVars, seisVars, searchVars, geoVars, appVars>>

HoverResultStep ==
    /\ \E i \in 1..maxResults : HoverResult(i)
    /\ UNCHANGED <<aggVars, physVars, seisVars, searchVars, geoVars, appVars>>

CloseListStep ==
    /\ CloseList
    /\ UNCHANGED <<aggVars, physVars, seisVars, searchVars, geoVars, appVars>>

OnFocusStep ==
    /\ OnFocus
    /\ UNCHANGED <<aggVars, physVars, seisVars, searchVars, geoVars, appVars>>

UnmountStep ==
    /\ Unmount
    /\ UNCHANGED <<aggVars, physVars, seisVars, searchVars, geoVars, appVars>>

RemountStep ==
    /\ Remount
    /\ UNCHANGED <<aggVars, physVars, seisVars, searchVars, geoVars, appVars>>

ResponseArrivesStep ==
    /\ \E p \in Callers : ResponseArrives(p)
    /\ UNCHANGED <<aggVars, physVars, seisVars, searchVars, geoVars, appVars>>

SearchSettledStep ==
    /\ \E p \in Callers : SearchSettled(p)
    /\ UNCHANGED <<aggVars, physVars, seisVars, searchVars, geoVars, appVars>>

PreloadSettledStep ==
    /\ \E p \in Callers : PreloadSettled(p)
    /\ UNCHANGED <<aggVars, physVars, seisVars, searchVars, geoVars, appVars>>

BarNext ==
    \/ OnChangeStep
    \/ TimerFiresStep
    \/ ClickResultStep
    \/ PressEnterStep
    \/ PressArrowStep
    \/ HoverResultStep
    \/ CloseListStep
    \/ OnFocusStep
    \/ UnmountStep
    \/ RemountStep
    \/ ResponseArrivesStep
    \/ SearchSettledStep
    \/ PreloadSettledStep

BarSpec == BarInit /\ [][BarNext]_vars

----------------------------------------------------------------------------
(* Properties of the loader *)

Loading == {p \in Callers : pc[p] \in {"fetch", "body"}}

Returned(p) == pc[p] = "idle" /\ ret[p] # <<>>

\* C2: over non-overlapping calls the fetch-and-parse of ensureLoaded is
\* executed at most once: no call made after the first load attempt has
\* completed fetches again.
C2_LoadAtMostOnce == nLoads <= 1

\* What holds instead: once a load attempt has left at least one city
\* (citiesLoaded), every later non-overlapping call performs no fetch and
\* leaves the cached dataset, index and flag as they are.
NoFetchOnceLoaded ==
    [][citiesLoaded =>
         /\ nLoads' = nLoads
         /\ citiesFlat' = citiesFlat
         /\ gridIndex' = gridIndex
         /\ citiesLoaded'
         /\ \A p \in Callers : pc'[p] \notin {"fetch", "body"}]_vars

\* C3: while a load is in flight no second load is started, i.e. at most one
\* caller is ever between the guard of ensureLoaded and the end of its loop.
C3_NoRedundantLoad == Cardinality(Loading) <= 1

AllSourcesFail ==
    \A i \in 1..NumCandidates :
        sources[i].kind \in {"reject", "notok", "bodyfail", "garbage"}

\* C4: when every candidate source fails, the module state stays empty
\* (citiesFlat, gridIndex, citiesLoaded = false) and no call raises:
\* reverseGeocode returns null, searchCities an empty list, preloadCities
\* resolves.
C4_AllSourcesFailGraceful ==
    AllSourcesFail =>
        /\ citiesFlat = <<>>
        /\ DOMAIN gridIndex = {}
        /\ ~citiesLoaded
        /\ \A p \in Callers :
              Returned(p) =>
                 /\ ret[p][1].list = <<>>
                 /\ ret[p][1].kind =
                       CASE call[p].fn = "reverseGeocode" -> "null"
                         [] call[p].fn = "searchCities" -> "list"
                         [] call[p].fn = "preloadCities" -> "void"

\* with every source failing, a reverseGeocode of finite coordinates and a
\* searchCities have both returned after their load attempts went through
\* all three candidates
C4_Witness ==
    /\ AllSourcesFail
    /\ nLoads >= 2
    /\ \E p, q \in Callers :
          /\ Returned(p) /\ call[p].fn = "reverseGeocode" /\ call[p].lat.k = "num"
          /\ Returned(q) /\ call[q].fn = "searchCities"

NonFiniteTarget(c) == c.lat.k # "num" \/ c.lon.k # "num"

\* C18: a reverseGeocode call that resumes while the loaded dataset is empty,
\* or whose latitude or longitude is not a finite number, returns null and
\* raises nothing.
C18_NullOnEmptyOrNonFinite ==
    [][\A p \in Callers :
         (/\ pc[p] = "resume" /\ pc'[p] = "idle"
          /\ call[p].fn = "reverseGeocode"
          /\ (citiesFlat = <<>> \/ NonFiniteTarget(call[p])))
            => ret'[p] = <<[kind |-> "null", list |-> <<>>]>>]_vars

\* the dataset is loaded, one caller's reverseGeocode(NaN, 0) has returned
\* null and the other's reverseGeocode(48, Infinity) too
C18_Witness ==
    /\ citiesLoaded /\ citiesFlat # <<>>
    /\ \E p, q \in Callers :
          /\ Returned(p) /\ call[p].fn = "reverseGeocode" /\ call[p].lat = NaN
          /\ ret[p][1].kind = "null"
          /\ Returned(q) /\ call[q].fn = "reverseGeocode" /\ call[q].lon = PosInfinity
          /\ ret[q][1].kind = "null"

\* floor of a coordinate in degrees
FloorDegree(x) == CHOOSE n \in -181..180 : 100 * n <= x /\ x < 100 * (n + 1)

\* the cell a record belongs to
CellOf(c) == <<FloorDegree(c.lat), FloorDegree(c.lon)>>

\* the positions <<key, j>> of an index
IndexEntries(index) ==
    UNION { {<<key, j>> : j \in 1..Len(index[key])} : key \in DOMAIN index }

\* index partitions flat: every entry of a cell is a record of flat that
\* belongs to that cell, and every record of flat is at as many positions of
\* the index as it has occurrences in flat (at exactly one when the records
\* differ)
PartitionsCities(index, flat) ==
    /\ \A e \in IndexEntries(index) :
          LET c == index[e[1]][e[2]]
          IN c \in Range(flat) /\ e[1] = CellOf(c)
    /\ \A i \in 1..Len(flat) :
          Cardinality({e \in IndexEntries(index) : index[e[1]][e[2]] = flat[i]})
            = Cardinality({j \in 1..Len(flat) : flat[j] = flat[i]})

\* caller p leaves the loop of ensureLoaded in this step
LoadCompletes(p) == pc[p] \in {"fetch", "body"} /\ pc'[p] = "resume"

\* C23: after every completed load the grid index partitions the loaded
\* cities: each record of citiesFlat is in exactly one cell, the cell of
\* (floor(lat), floor(lon)), and no cell holds anything else, also after a
\* second load (the map is built anew, not added to).
C23_GridIndexPartition ==
    [][(\E p \in Callers : LoadCompletes(p)) => PartitionsCities(gridIndex', citiesFlat')]_vars

\* two loads have completed over the dataset: five cities in four cells, one
\* of them south of the equator
C23_Witness ==
    /\ citiesLoaded
    /\ nLoads = 2
    /\ \A p \in Callers : pc[p] \in {"idle", "resume"}
    /\ Len(citiesFlat) = 5
    /\ DOMAIN gridIndex = {<<48, 0>>, <<41, 0>>, <<0, 0>>, <<-1, 0>>}
    /\ Len(gridIndex[<<48, 0>>]) = 2

\* C24: at every point where another caller can run (every state of the
\* model: the callers are at an await or idle) gridIndex is the index of the
\* current citiesFlat, and citiesLoaded implies that citiesFlat is not empty.
C24_NoPartialDataset ==
    /\ PartitionsCities(gridIndex, citiesFlat)
    /\ \A key \in DOMAIN gridIndex : gridIndex[key] # <<>>
    /\ citiesLoaded => citiesFlat # <<>>

\* one caller's load has completed and its query is about to read the
\* dataset while the other caller's load is still in flight
C24_Witness ==
    /\ citiesLoaded
    /\ \E p, q \in Callers :
          /\ pc[p] = "resume" /\ call[p].fn \in {"reverseGeocode", "searchCities"}
          /\ pc[q] \in {"fetch", "body"}

\* C25: once citiesLoaded, a call goes straight to its continuation without
\* fetching, and no call or continuation of preloadCities, reverseGeocode or
\* searchCities changes citiesFlat (contents and order) or gridIndex.
C25_QueriesReadOnly ==
    [][citiesLoaded =>
         \A p \in Callers :
            /\ (pc[p] = "idle" /\ pc'[p] # "idle") =>
                   /\ pc'[p] = "resume"
                   /\ citiesFlat' = citiesFlat /\ gridIndex' = gridIndex
            /\ (pc[p] = "resume" /\ pc'[p] = "idle") =>
                   /\ citiesFlat' = citiesFlat /\ gridIndex' = gridIndex /\ citiesLoaded']_vars

\* on the loaded dataset a searchCities and a reverseGeocode, both called
\* after the load, have returned their results
C25_Witness ==
    /\ citiesLoaded
    /\ nLoads = 1 /\ nCalls = 3
    /\ \E p, q \in Callers :
          /\ Returned(p) /\ call[p].fn = "searchCities" /\ ret[p][1].list # <<>>
          /\ Returned(q) /\ call[q].fn = "reverseGeocode" /\ ret[q][1].kind = "city"

----------------------------------------------------------------------------
(* Properties of the application (specification AppSpec) *)

SimulationCompleted ==
    /\ ~uiState.isSimulating
    /\ uiState.showResults
    /\ mission.result # <<>>

\* C19: once handleRunSimulation has succeeded and isSimulating is true, the
\* globe eventually invokes the completion callback with a result:
\* isSimulating returns to false and showResults becomes true, also when no
\* path serves the city dataset.
C19_SimulationCompletes == uiState.isSimulating ~> SimulationCompleted

\* C28: in every reachable state of the application showResults and
\* isSimulating are not both true, and showResults implies that mission.result
\* is not null.
C28_ResultsShownAfterSimulation ==
    /\ ~(uiState.showResults /\ uiState.isSimulating)
    /\ uiState.showResults => mission.result # <<>>

\* a second run has started after a completed one: the globe animates the new
\* physics result (no population fields yet) and the panel of the first run
\* is hidden
C28_Witness ==
    /\ uiState.isSimulating /\ ~uiState.showResults
    /\ globe.phase = "animating"
    /\ nCalls >= 2
    /\ pc[GlobeCaller] = "idle" /\ ret[GlobeCaller] # <<>>
    /\ mission.result # <<>> /\ mission.result[1].population_affected = <<>>

\* the aggregator's result for the zones of res over the loaded cities
ZonesOf(res, cities) ==
    populationAffectedByZones(pointCities(cities), res.latitude.v, res.longitude.v,
                              radiusMetres(res.blast_radius_km),
                              radiusMetres(res.thermal_radius_km),
                              radiusMetres(QScale(res.crater_km, -Log10E4(2))))

\* the fields simulateImpactor computed
PhysicsFields ==
    {"impact_energy_j", "impact_energy_mt", "crater_m", "crater_km", "blast_radius_m",
     "blast_radius_km", "thermal_radius_m", "thermal_radius_km", "seismic_magnitude",
     "latitude", "longitude"}

\* the globe's population computation hands its result to App in this step
CompletionCallback == globe.phase = "awaiting" /\ globe'.phase # "awaiting"

\* C30: the result passed to the completion callback carries the fields of
\* the physics result unchanged (the globe's own copy stays without
\* population fields); population_affected equals thermal_population_total,
\* the three totals are the aggregator's craterPop, blastPop and thermalPop,
\* and affectedCities is the first min(10, n) entries of the aggregator's
\* ranked list, in its order.
C30_EnrichedResult ==
    [][CompletionCallback =>
        LET res == globe.res[1]
            out == mission'.result[1]
            zones == ZonesOf(res, citiesFlat)
            n == Len(zones.cityResults)
        IN /\ res.population_affected = <<>> /\ res.affectedCities = <<>>
           /\ \A f \in PhysicsFields : out[f] = res[f]
           /\ out.population_affected = out.thermal_population_total
           /\ out.crater_population_total = <<zones.craterPop>>
           /\ out.blast_population_total = <<zones.blastPop>>
           /\ out.thermal_population_total = <<zones.thermalPop>>
           /\ Len(out.affectedCities) = 1
           /\ Len(out.affectedCities[1]) = Min(10, n)
           /\ \A i \in 1..Min(10, n) :
                 LET a == out.affectedCities[1][i]
                     c == zones.cityResults[i]
                 IN /\ a.name = c.city /\ a.country = c.country
                    /\ a.population = c.population
                    /\ a.distance = c.distance_km /\ a.zones = c.zones]_vars

\* a completed run whose zones hold twelve cities: ten are listed, the most
\* populous first
C30_Witness ==
    /\ uiState.showResults
    /\ mission.result # <<>>
    /\ Len(citiesFlat) = LargeCities
    /\ Len(ZonesOf(mission.result[1], citiesFlat).cityResults) > 10
    /\ mission.result[1].affectedCities # <<>>
    /\ Len(mission.result[1].affectedCities[1]) = 10
    /\ mission.result[1].affectedCities[1][1].population = 12
    /\ mission.result[1].population_affected[1] > 12

----------------------------------------------------------------------------
(* Properties of the search bar (specification BarSpec) *)

\* every timer has fired and every search has settled
BarQuiescent ==
    /\ searchBar.timers = {}
    /\ \A p \in Callers : pc[p] = "idle"

\* what doSearch displays for the query q over the loaded cities
ResultsFor(q) ==
    IF queryTooShort(q) THEN <<>>
    ELSE sliceResults(searchCitiesOn(citiesFlat, q, SearchLimit))

\* each keystroke cancels the timer of the previous one
AtMostOneTimerPending == Cardinality(searchBar.timers) <= 1

\* the input holds what was typed last (no result was selected since)
ShowsTypedText == searchBar.query = searchBar.typed

\* C29: at most one debounce timer is pending, and once every timer has
\* fired and every searchCities promise has settled the displayed results
\* are those of the query typed last.
C29_LatestQueryDisplayed ==
    /\ AtMostOneTimerPending
    /\ (BarQuiescent /\ ShowsTypedText) => searchBar.results = ResultsFor(searchBar.typed)

====
